---------------------------- MODULE Spec2Model ----------------------------
(***************************************************************************)
(* Model of the document-to-record extraction engine of the Colorado       *)
(* CareAssist route tracker (src/parser.py).  Python strings are TLA+      *)
(* strings; an Optional value is a sequence of length at most one          *)
(* (None == <<>>, a present value v is <<v>>).                             *)
(***************************************************************************)
EXTENDS Integers, Sequences, FiniteSets, TLC

VARIABLES
    pc,           \* position of the operation under study
    visits,       \* _clean_visits: the batch handed to the clean-up
    cleaned,      \* _clean_visits: the list it returns
    text_lines,   \* "lines" of _extract_visits_from_text and _extract_time_data
    idx,          \* 1-based position in text_lines of the line the loop reads next
    current_stop, current_address, current_notes,   \* the active stop of the scan
    page_visits,  \* _extract_visits_from_text: the visits of the page so far
    given_address, given_notes,   \* _infer_business_name: its arguments
    inferred_name,                \* _infer_business_name: the name it returns
    date, total_hours,            \* _extract_time_data: the values found so far
    pdf_content,  \* parse_pdf: the document behind the bytes
    pdf_type,     \* parse_pdf: the answer of detect_pdf_type
    page_no,      \* parse_myway_route_pdf: 1-based number of the page its loop reads next
    result,       \* parse_pdf: the dictionary it returns
    upload,       \* upload_file: the uploaded file, as its name and what the readers make of it
    response,     \* upload_file: the HTTP response
    instance,     \* the attributes of the one PDFParser the callers share
    calls,        \* the _extract_visits_from_text calls in progress: their locals
    card_text,    \* _parse_contact_info: the OCR text of the card
    contact,      \* _parse_contact_info: the contact it returns
    validated,    \* validate_contact: the contact it returns
    resolve_args, \* get_best_business_name: its arguments
    resolved      \* get_best_business_name: the name it returns

cleanVars == <<visits, cleaned>>
lineVars == <<text_lines, idx>>
stopVars == <<current_stop, current_address, current_notes, page_visits>>
scanVars == <<lineVars, stopVars>>
nameVars == <<given_address, given_notes, inferred_name>>
timeVars == <<date, total_hours>>
parseVars == <<pdf_content, pdf_type, result, page_no, upload, response>>
sharedVars == <<instance, calls>>
cardVars == <<card_text, contact, validated>>
resolveVars == <<resolve_args, resolved>>
vars == <<pc, cleanVars, scanVars, nameVars, timeVars, parseVars, sharedVars, cardVars,
          resolveVars>>

\* the variables of an operation that is not running
CleanIdle == visits = <<>> /\ cleaned = <<>>
LinesIdle == text_lines = <<>> /\ idx = 0
StopIdle ==
    /\ current_stop = <<>> /\ current_address = <<>> /\ current_notes = <<>>
    /\ page_visits = <<>>
NameIdle == given_address = "" /\ given_notes = <<>> /\ inferred_name = ""
TimeIdle == date = <<>> /\ total_hours = <<>>
ParseIdle ==
    /\ pdf_content = <<>> /\ pdf_type = "" /\ result = <<>> /\ page_no = 0
    /\ upload = <<>> /\ response = <<>>
SharedIdle == instance = <<>> /\ calls = <<>>
CardIdle == card_text = "" /\ contact = <<>> /\ validated = <<>>
ResolveIdle == resolve_args = <<>> /\ resolved = ""

(***************************************************************************)
(* Optional values                                                         *)
(***************************************************************************)
None == <<>>
Some(v) == <<v>>
Val(o) == o[1]

(***************************************************************************)
(* String primitives (Python str operations used by the parser)            *)
(***************************************************************************)
\* Python s[i-1]: an IndexError outside the string is an evaluation error
At(s, i) == SubSeq(s, i, i)

\* s[i] (1-based), "" outside the string (what a regular expression sees)
Ch(s, i) == IF i >= 1 /\ i <= Len(s) THEN SubSeq(s, i, i) ELSE ""

DigitChars == {"0", "1", "2", "3", "4", "5", "6", "7", "8", "9"}
UpperAlpha == "ABCDEFGHIJKLMNOPQRSTUVWXYZ"
LowerAlpha == "abcdefghijklmnopqrstuvwxyz"
UpperChars == {Ch(UpperAlpha, n) : n \in 1..26}
LowerChars == {Ch(LowerAlpha, n) : n \in 1..26}
SpaceChars == {" ", "\t", "\n", "\r"}

IsDigit(c) == c \in DigitChars
IsUpper(c) == c \in UpperChars
IsAlpha(c) == c \in UpperChars \cup LowerChars
IsSpace(c) == c \in SpaceChars
\* regex \w
IsWord(c) == IsAlpha(c) \/ IsDigit(c) \/ c = "_"

LowerMap == [c \in UpperChars |-> Ch(LowerAlpha, CHOOSE n \in 1..26 : Ch(UpperAlpha, n) = c)]
LowerChar(c) == IF c \in UpperChars THEN LowerMap[c] ELSE c

RECURSIVE Lower(_)
\* str.lower()
Lower(s) ==
    IF s = "" THEN ""
    ELSE IF Len(s) = 1 THEN LowerChar(s)
    ELSE Lower(SubSeq(s, 1, Len(s) \div 2)) \o Lower(SubSeq(s, Len(s) \div 2 + 1, Len(s)))

\* s[i:i+len(k)] == k   (1-based i)
MatchAt(s, i, k) == /\ i >= 1
                    /\ i + Len(k) - 1 <= Len(s)
                    /\ SubSeq(s, i, i + Len(k) - 1) = k

\* k in s
Contains(s, k) == \E i \in 1..(Len(s) - Len(k) + 1) : MatchAt(s, i, k)

RECURSIVE LStrip(_)
LStrip(s) == IF s # "" /\ IsSpace(Head(s)) THEN LStrip(Tail(s)) ELSE s
RECURSIVE RStrip(_)
RStrip(s) == IF s # "" /\ IsSpace(Ch(s, Len(s))) THEN RStrip(SubSeq(s, 1, Len(s) - 1)) ELSE s
\* str.strip()
Strip(s) == RStrip(LStrip(s))

RECURSIVE Join(_, _)
\* sep.join(parts)
Join(parts, sep) ==
    IF parts = <<>> THEN ""
    ELSE IF Len(parts) = 1 THEN parts[1]
    ELSE parts[1] \o sep \o Join(Tail(parts), sep)

Min(S) == CHOOSE x \in S : \A y \in S : x <= y
Max(S) == CHOOSE x \in S : \A y \in S : x >= y
MinOr(S, default) == IF S = {} THEN default ELSE Min(S)
MaxOr(S, default) == IF S = {} THEN default ELSE Max(S)

\* first position j >= i of s holding a character of C (Len(s)+1 if none)
NextIn(s, i, C) == MinOr({j \in i..Len(s) : Ch(s, j) \in C}, Len(s) + 1)

\* first position j >= i of s holding a character outside C (Len(s)+1 if none)
NextNotIn(s, i, C) == MinOr({j \in i..Len(s) : Ch(s, j) \notin C}, Len(s) + 1)

\* last position of the maximal run of C-characters starting at i (i-1 if empty)
RunEnd(s, i, C) == NextNotIn(s, i, C) - 1

RECURSIVE SplitOn(_, _)
RECURSIVE SplitAt(_, _, _)
\* s.split(sep) for a one-character separator
SplitOn(s, sep) == SplitAt(s, sep, NextIn(s, 1, {sep}))
\* ... j being the position of the first separator
SplitAt(s, sep, j) ==
    IF j > Len(s) THEN <<s>>
    ELSE <<SubSeq(s, 1, j - 1)>> \o SplitOn(SubSeq(s, j + 1, Len(s)), sep)

RECURSIVE SplitWS(_)
RECURSIVE SplitWord(_, _)
\* s.split(): the maximal runs of non-whitespace characters
SplitWS(s) == IF LStrip(s) = "" THEN <<>> ELSE SplitWord(LStrip(s), NextIn(LStrip(s), 1, SpaceChars))
\* ... t starting with a word that ends before position e
SplitWord(t, e) == <<SubSeq(t, 1, e - 1)>> \o SplitWS(SubSeq(t, e, Len(t)))

DigitString == "0123456789"
DigitVal(c) == (CHOOSE n \in 1..10 : Ch(DigitString, n) = c) - 1

RECURSIVE ToInt(_)
\* int(ds) for a non-empty string of decimal digits
ToInt(ds) ==
    IF ds = "" THEN 0
    ELSE 10 * ToInt(SubSeq(ds, 1, Len(ds) - 1)) + DigitVal(Ch(ds, Len(ds)))

(***************************************************************************)
(* address_patterns and _extract_address (src/parser.py:44-48, 262-268)    *)
(*                                                                         *)
(* All three patterns share the body                                       *)
(*   \d+\s+[A-Za-z\s]+(?:St|Street|...|Place)                              *)
(* and differ in the text required behind it.  re.search returns the       *)
(* leftmost match; at one start the greedy quantifiers make the engine     *)
(* prefer the rightmost start of a street-type word and, there, the first   *)
(* alternative in list order.                                              *)
(***************************************************************************)
StreetTypes == <<"St", "Street", "Ave", "Avenue", "Blvd", "Boulevard", "Rd", "Road",
                 "Dr", "Drive", "Way", "Ln", "Lane", "Ct", "Court", "Pl", "Place">>

\* what each of the three patterns requires behind the street type
AddressTails == <<"", "Colorado Springs", "CO">>

AlphaSpaceChars == UpperChars \cup LowerChars \cup SpaceChars

\* re.IGNORECASE: the literals of a pattern are compared in lower case
LowerEach(words) == [n \in 1..Len(words) |-> Lower(words[n])]
StreetTypesLower == LowerEach(StreetTypes)
AddressTailsLower == LowerEach(AddressTails)

\* position of the last character of <tail> matched at t, 0 when it fails
TailEndAt(ls, t, tail) == IF MatchAt(ls, t, tail) THEN t + Len(tail) - 1 ELSE 0

\* position of the last character of ",\s*<tail>" matched at e (e-1 for the
\* empty tail), or 0 when it does not match there; ls is lower-cased text
TailEnd(ls, e, tail) ==
    IF tail = "" THEN e - 1
    ELSE IF Ch(ls, e) # "," THEN 0
    ELSE TailEndAt(ls, NextNotIn(ls, e + 1, SpaceChars), tail)

\* the candidates <<p, a>> (street type a starting at p): \d+ ends at d, the
\* white space behind it at wEnd, the run of letters and spaces at rEnd
CandidatesInRun(ls, d, wEnd, rEnd, tail) ==
    IF wEnd < d + 1 THEN {}
    ELSE {c \in ((IF wEnd >= d + 2 THEN wEnd + 1 ELSE wEnd + 2)..rEnd) \X (1..Len(StreetTypes)) :
             /\ MatchAt(ls, c[1], StreetTypesLower[c[2]])
             /\ TailEnd(ls, c[1] + Len(StreetTypes[c[2]]), tail) # 0}

CandidatesAfterDigits(ls, i, d, tail) ==
    IF d < i THEN {}
    ELSE CandidatesInRun(ls, d, RunEnd(ls, d + 1, SpaceChars), RunEnd(ls, d + 1, AlphaSpaceChars), tail)

\* the candidates of a match that starts with the digit run at i and ends
\* with the given tail
AddressCandidates(ls, i, tail) == CandidatesAfterDigits(ls, i, RunEnd(ls, i, DigitChars), tail)

\* the candidate the backtracking engine reaches first
PreferredCandidate(cands) ==
    CHOOSE c \in cands : \A o \in cands : c[1] > o[1] \/ (c[1] = o[1] /\ c[2] <= o[2])

\* the text matched from i with street type c[2] at c[1]
MatchedText(text, ls, tail, i, c) ==
    Some(SubSeq(text, i, TailEnd(ls, c[1] + Len(StreetTypes[c[2]]), tail)))

\* the match at the leftmost of the possible starts
LeftmostMatch(text, ls, tail, starts) ==
    IF starts = {} THEN None
    ELSE MatchedText(text, ls, tail, Min(starts),
                     PreferredCandidate(AddressCandidates(ls, Min(starts), tail)))

SearchLowered(text, ls, tail) ==
    LeftmostMatch(text, ls, tail,
        {i \in 1..Len(text) : IsDigit(Ch(text, i)) /\ AddressCandidates(ls, i, tail) # {}})

\* re.search(pattern, text, re.IGNORECASE) for the pattern with the given
\* (lower-cased) tail: the matched text, or None
AddressSearch(text, tail) == SearchLowered(text, Lower(text), tail)

RECURSIVE ExtractAddressFrom(_, _)
RECURSIVE MatchOrNextPattern(_, _, _)
\* the loop over self.address_patterns from pattern n on
ExtractAddressFrom(text, n) ==
    IF n > Len(AddressTails) THEN None
    ELSE MatchOrNextPattern(text, n, AddressSearch(text, AddressTailsLower[n]))
\* "if match: return match.group(0).strip()"
MatchOrNextPattern(text, n, match) ==
    IF match # None THEN Some(Strip(Val(match))) ELSE ExtractAddressFrom(text, n + 1)

extract_address(text) == ExtractAddressFrom(text, 1)

(***************************************************************************)
(* known_facilities (src/parser.py:15-41), in dictionary order             *)
(***************************************************************************)
known_facilities == <<
    <<"uchealth memorial hospital", "UCHealth Memorial Hospital Central">>,
    <<"uchealth memorial", "UCHealth Memorial Hospital Central">>,
    <<"memorial hospital", "UCHealth Memorial Hospital Central">>,
    <<"pikes peak hospice", "Pikes Peak Hospice">>,
    <<"independence center", "The Independence Center">>,
    <<"penrose hospital", "Penrose Hospital">>,
    <<"centura health", "Centura Health">>,
    <<"st francis medical center", "St. Francis Medical Center">>,
    <<"children's hospital colorado", "Children's Hospital Colorado">>,
    <<"peaks recovery center", "Peaks Recovery Center">>,
    <<"cedar springs hospital", "Cedar Springs Hospital">>,
    <<"parkview medical center", "Parkview Medical Center">>,
    <<"st mary corwin", "St. Mary-Corwin Medical Center">>,
    <<"healthsouth", "HealthSouth Rehabilitation Hospital">>,
    <<"kindred hospital", "Kindred Hospital">>,
    <<"rehabilitation hospital", "Rehabilitation Hospital">>,
    <<"veterans affairs", "VA Medical Center">>,
    <<"va hospital", "VA Medical Center">>,
    <<"mountain view medical", "Mountain View Medical Center">>,
    <<"peak vista", "Peak Vista Community Health Centers">>,
    <<"community health", "Community Health Centers">>,
    <<"primary care", "Primary Care Clinic">>,
    <<"urgent care", "Urgent Care Center">>,
    <<"emergency room", "Emergency Room">>,
    <<"er", "Emergency Room">> >>

RECURSIVE FacilityLookup(_, _)
\* "for keyword, facility_name in self.known_facilities.items():
\*      if keyword in text: return facility_name", from entry n on
FacilityLookup(text, n) ==
    IF n > Len(known_facilities) THEN None
    ELSE IF Contains(text, known_facilities[n][1]) THEN Some(known_facilities[n][2])
    ELSE FacilityLookup(text, n + 1)

RECURSIVE NotesFacilityLookup(_, _)
RECURSIVE FoundOrNextNote(_, _, _)
\* the second look-up of _infer_business_name, note by note
NotesFacilityLookup(notes, k) ==
    IF k > Len(notes) THEN None
    ELSE FoundOrNextNote(FacilityLookup(Lower(notes[k]), 1), notes, k)
FoundOrNextNote(found, notes, k) ==
    IF found # None THEN found ELSE NotesFacilityLookup(notes, k + 1)

(***************************************************************************)
(* _extract_business_name_from_address (src/parser.py:324-376)             *)
(***************************************************************************)
\* the category alternatives of the ten healthcare_patterns, each pattern
\* being  (\w+(?:\s+\w+)*)\s+(?:<alternatives>)
healthcare_patterns == <<
    <<"Hospital", "Medical Center", "Health Center", "Healthcare Center">>,
    <<"Care Center", "Rehabilitation Center", "Rehab Center">>,
    <<"Assisted Living", "Senior Living", "Memory Care">>,
    <<"Hospice", "Palliative Care">>,
    <<"Clinic", "Medical Clinic", "Health Clinic">>,
    <<"Emergency Room", "ER", "Emergency Department">>,
    <<"Recovery", "Treatment Center">>,
    <<"Internal Medicine", "Family Medicine">>,
    <<"Post Acute", "Skilled Nursing">>,
    <<"Health Care", "Healthcare">> >>

healthcare_patterns_lower == [n \in 1..Len(healthcare_patterns) |-> LowerEach(healthcare_patterns[n])]

WordChars == UpperChars \cup LowerChars \cup DigitChars \cup {"_"}

RECURSIVE ChainEnds(_, _)
RECURSIVE ChainNext(_, _, _)
\* the ends of the words of  \w+(?:\s+\w+)*  when it starts at i
ChainEnds(ls, i) ==
    ChainNext(ls, RunEnd(ls, i, WordChars),
              NextNotIn(ls, RunEnd(ls, i, WordChars) + 1, SpaceChars))
\* ... a word ending at e, the next non-space character being at q
ChainNext(ls, e, q) ==
    IF q > e + 1 /\ Ch(ls, q) \in WordChars THEN {e} \cup ChainEnds(ls, q) ELSE {e}

\* \s+(?:<alternatives>) matches behind e, q being the next non-space position
CategoryFollows(ls, e, q, alts) ==
    q > e + 1 /\ \E a \in 1..Len(alts) : MatchAt(ls, q, alts[a])

\* the ends of group 1 after which  \s+(?:<alternatives>)  matches
CategoryEnds(ls, i, alts) ==
    IF Ch(ls, i) \notin WordChars THEN {}
    ELSE {e \in ChainEnds(ls, i) : CategoryFollows(ls, e, NextNotIn(ls, e + 1, SpaceChars), alts)}

\* group 1 of the match at the leftmost of the possible starts (the group is
\* greedy: it ends at the last possible word)
LeftmostGroup(address, ls, alts, starts) ==
    IF starts = {} THEN None
    ELSE Some(SubSeq(address, Min(starts), Max(CategoryEnds(ls, Min(starts), alts))))

\* a match that starts inside a word also starts at the head of that word
HealthcareSearchLowered(address, ls, alts) ==
    LeftmostGroup(address, ls, alts,
        {i \in 1..Len(address) : Ch(ls, i - 1) \notin WordChars /\ CategoryEnds(ls, i, alts) # {}})

\* match.group(1) of re.search(pattern, address, re.IGNORECASE) for the
\* pattern with the given (lower-cased) alternatives, or None
HealthcareSearch(address, alts) == HealthcareSearchLowered(address, Lower(address), alts)

TrivialNames == {"the", "at", "of", "and"}

RECURSIVE HealthcareName(_, _)
RECURSIVE GroupOrNextPattern(_, _, _)
RECURSIVE NamePartOrNextPattern(_, _, _)
\* the loop over healthcare_patterns from pattern n on
HealthcareName(address, n) ==
    IF n > Len(healthcare_patterns) THEN None
    ELSE GroupOrNextPattern(address, n, HealthcareSearch(address, healthcare_patterns_lower[n]))
\* "if match: name_part = match.group(1).strip()"
GroupOrNextPattern(address, n, match) ==
    IF match = None THEN HealthcareName(address, n + 1)
    ELSE NamePartOrNextPattern(address, n, Strip(Val(match)))
\* "if len(name_part) > 2 and not name_part.lower() in [...]: return name_part"
NamePartOrNextPattern(address, n, name_part) ==
    IF Len(name_part) > 2 /\ Lower(name_part) \notin TrivialNames
    THEN Some(name_part)
    ELSE HealthcareName(address, n + 1)

StreetWords == {"st", "street", "ave", "avenue", "blvd", "boulevard", "rd", "road", "dr",
                "drive", "ln", "lane", "ct", "court", "pl", "place", "way"}

RECURSIVE CapitalizedRun_without_break(_, _, _)
\* variant: the loop goes on behind the first word that ends the run
CapitalizedRun_without_break(address_parts, k, capitalized_words) ==
    IF k > Len(address_parts) THEN capitalized_words
    ELSE IF /\ IsUpper(At(address_parts[k], 1))
            /\ Len(address_parts[k]) > 2
            /\ Lower(address_parts[k]) \notin StreetWords
         THEN CapitalizedRun_without_break(address_parts, k + 1,
                                           Append(capitalized_words, address_parts[k]))
         ELSE CapitalizedRun_without_break(address_parts, k + 1, capitalized_words)

RECURSIVE CapitalizedRun(_, _, _)
\* the loop that collects capitalized_words from address_parts[k] on
CapitalizedRun(address_parts, k, capitalized_words) ==
    IF k > Len(address_parts) THEN capitalized_words
    ELSE IF /\ IsUpper(At(address_parts[k], 1))
            /\ Len(address_parts[k]) > 2
            /\ Lower(address_parts[k]) \notin StreetWords
         THEN CapitalizedRun(address_parts, k + 1, Append(capitalized_words, address_parts[k]))
         ELSE IF capitalized_words # <<>> THEN capitalized_words
         ELSE CapitalizedRun(address_parts, k + 1, capitalized_words)

CareTerms == {"hospital", "medical", "health", "clinic", "center", "care"}

RECURSIVE SelectCapWords(_)
\* [word for word in note_words if word[0].isupper() and len(word) > 2]
SelectCapWords(note_words) ==
    IF note_words = <<>> THEN <<>>
    ELSE (IF IsUpper(At(Head(note_words), 1)) /\ Len(Head(note_words)) > 2
          THEN <<Head(note_words)>> ELSE <<>>)
             \o SelectCapWords(Tail(note_words))

\* cap_words[:3]
FirstThree(words) == SubSeq(words, 1, IF Len(words) < 3 THEN Len(words) ELSE 3)

RECURSIVE NotesName(_, _)
RECURSIVE CapWordsOrNextNote(_, _, _, _)
\* the notes fallback, from note k on
NotesName(notes, k) ==
    IF k > Len(notes) THEN None
    ELSE CapWordsOrNextNote(notes, k, Lower(notes[k]), SelectCapWords(SplitWS(notes[k])))
CapWordsOrNextNote(notes, k, note_lower, cap_words) ==
    IF (\E term \in CareTerms : Contains(note_lower, term)) /\ cap_words # <<>>
    THEN Some(Join(FirstThree(cap_words), " "))
    ELSE NotesName(notes, k + 1)

\* "if capitalized_words: ... if len(business_name) > 3: return business_name",
\* else the notes fallback
CapitalizedNameOrNotes(capitalized_words, business_name, notes) ==
    IF capitalized_words # <<>> /\ Len(business_name) > 3 THEN Some(business_name)
    ELSE NotesName(notes, 1)

\* the tiers behind the healthcare patterns
AfterPatterns(address_parts, notes) ==
    CapitalizedNameOrNotes(CapitalizedRun(address_parts, 1, <<>>),
                           Join(CapitalizedRun(address_parts, 1, <<>>), " "), notes)

PatternNameOr(by_pattern, address, notes) ==
    IF by_pattern # None THEN by_pattern
    ELSE AfterPatterns(SplitWS(SplitOn(address, ",")[1]), notes)

\* the name, or None
extract_business_name_from_address(address, notes) ==
    PatternNameOr(HealthcareName(address, 1), address, notes)

(***************************************************************************)
(* _infer_business_name (src/parser.py:300-322)                            *)
(***************************************************************************)
DefaultBusinessName == "Healthcare Facility"

\* variant: the result of the extraction is returned as it is
ExtractedOrDefault_as_is(business_name) ==
    IF business_name # None THEN Val(business_name) ELSE ""

\* "if business_name and business_name != 'Healthcare Facility': return
\*  business_name", else the default
ExtractedOrDefault(business_name) ==
    IF business_name # None /\ Val(business_name) # "" /\ Val(business_name) # DefaultBusinessName
    THEN Val(business_name)
    ELSE DefaultBusinessName

\* the look-up in the single notes, then the extraction from the address
NotedOrExtracted(noted, address, notes) ==
    IF noted # None THEN Val(noted)
    ELSE ExtractedOrDefault(extract_business_name_from_address(address, notes))

\* variant: the extraction from the address goes before the dictionary
KnownOrLater_extraction_first(known, address, notes) ==
    IF extract_business_name_from_address(address, notes) # None
    THEN ExtractedOrDefault(extract_business_name_from_address(address, notes))
    ELSE IF known # None THEN Val(known) ELSE DefaultBusinessName

\* the look-up in text_to_search, then the later tiers
KnownOrLater(known, address, notes) ==
    IF known # None THEN Val(known)
    ELSE NotedOrExtracted(NotesFacilityLookup(notes, 1), address, notes)

\* variant: the text is searched as written, not in lower case
TextToSearch_as_written(address, notes) == address \o " " \o Join(notes, " ")

\* text_to_search = f"{address} {' '.join(notes)}".lower()
TextToSearch(address, notes) == Lower(address \o " " \o Join(notes, " "))

infer_business_name(address, notes) ==
    KnownOrLater(FacilityLookup(TextToSearch(address, notes), 1), address, notes)

(***************************************************************************)
(* _clean_address (src/parser.py:378-406)                                  *)
(***************************************************************************)
RECURSIVE CollapseSpaces(_)
\* re.sub(r'\s+', ' ', s)
CollapseSpaces(s) ==
    IF s = "" THEN ""
    ELSE IF IsSpace(Head(s)) THEN " " \o CollapseSpaces(SubSeq(s, NextNotIn(s, 1, SpaceChars), Len(s)))
    ELSE Head(s) \o CollapseSpaces(Tail(s))

\* the replacements in dictionary order: \b<word>\b -> <short form>
replacements == <<
    <<"St", "St">>, <<"Street", "St">>, <<"Ave", "Ave">>, <<"Avenue", "Ave">>,
    <<"Blvd", "Blvd">>, <<"Boulevard", "Blvd">>, <<"Rd", "Rd">>, <<"Road", "Rd">>,
    <<"Dr", "Dr">>, <<"Drive", "Dr">>, <<"Ln", "Ln">>, <<"Lane", "Ln">>,
    <<"Ct", "Ct">>, <<"Court", "Ct">>, <<"Pl", "Pl">>, <<"Place", "Pl">> >>

RECURSIVE SubWord(_, _, _, _, _)
\* re.sub(r'\b<word>\b', short, s, flags=re.IGNORECASE) from position i on;
\* ls is s in lower case and word is given in lower case
SubWord(s, ls, i, word, short) ==
    IF i > Len(s) THEN ""
    ELSE IF /\ MatchAt(ls, i, word)
            /\ Ch(s, i - 1) \notin WordChars
            /\ Ch(s, i + Len(word)) \notin WordChars
         THEN short \o SubWord(s, ls, i + Len(word), word, short)
         ELSE Ch(s, i) \o SubWord(s, ls, i + 1, word, short)

replaced_words_lower == [n \in 1..Len(replacements) |-> Lower(replacements[n][1])]

RECURSIVE ApplyReplacements(_, _)
\* "for pattern, replacement in replacements.items()" from entry n on
ApplyReplacements(s, n) ==
    IF n > Len(replacements) THEN s
    ELSE ApplyReplacements(SubWord(s, Lower(s), 1, replaced_words_lower[n], replacements[n][2]), n + 1)

clean_address(address) == ApplyReplacements(CollapseSpaces(Strip(address)), 1)

(***************************************************************************)
(* _create_visit (src/parser.py:270-298)                                   *)
(***************************************************************************)
\* the city of a visit
CityOf(address, notes) ==
    IF Contains(address, "Denver") \/ Contains(Join(notes, " "), "Denver") THEN "Denver"
    ELSE IF Contains(address, "Pueblo") \/ Contains(Join(notes, " "), "Pueblo") THEN "Pueblo"
    ELSE "Colorado Springs"

\* the visit record, or None for a stop without address
create_visit(stop_num, address, notes, page_num) ==
    IF address = None \/ Val(address) = "" THEN None
    ELSE Some([stop          |-> stop_num,
               business_name |-> infer_business_name(Val(address), notes),
               location      |-> Some(clean_address(Val(address))),
               city          |-> CityOf(Val(address), notes),
               notes         |-> Strip(Join(notes, " "))])

(***************************************************************************)
(* _extract_visits_from_text (src/parser.py:201-260)                       *)
(***************************************************************************)
StopSeparators == {".", ")", "-"} \cup SpaceChars

\* the match of  ^(\d+)[\.\)\-\s]  ends behind the digits 1..d
StopEndAfter(line, d) == IF d >= 1 /\ Ch(line, d + 1) \in StopSeparators THEN d + 1 ELSE 0

\* length of the match of  ^(\d+)[\.\)\-\s]  on the line, 0 when it fails
StopMatchEnd(line) == StopEndAfter(line, RunEnd(line, 1, DigitChars))

HeaderWords == <<"Route", "Stop", "Time", "Date", "Driver", "Vehicle">>
HeaderWordsLower == LowerEach(HeaderWords)

\* re.match(r'^(Route|Stop|Time|Date|Driver|Vehicle)', line, re.IGNORECASE)
IsHeaderLine(line) ==
    \E n \in 1..Len(HeaderWords) : MatchAt(Lower(line), 1, HeaderWordsLower[n])

RECURSIVE LookAhead(_, _, _)
RECURSIVE FoundOrNextLine(_, _, _, _)
\* "for j in range(i+1, min(i+3, len(lines)))": lines j..last, first address
LookAhead(lines, j, last) ==
    IF j > last THEN None
    ELSE FoundOrNextLine(extract_address(lines[j]), lines, j, last)
FoundOrNextLine(address, lines, j, last) ==
    IF address # None THEN address ELSE LookAhead(lines, j + 1, last)

\* the address of a new stop: from its own line, else from the next 2 lines
SameLineOrAhead(address, lines, i) ==
    IF address # None THEN address
    ELSE LookAhead(lines, i + 1, IF i + 2 < Len(lines) THEN i + 2 ELSE Len(lines))

\* "if visit: visits.append(visit)"
AppendVisit(vs, visit) == IF visit # None THEN Append(vs, Val(visit)) ELSE vs

\* "Save previous visit if exists" and "Don't forget the last visit"
Finalize(st, page_num) ==
    IF st.current_stop # None
    THEN AppendVisit(st.visits,
             create_visit(Val(st.current_stop), st.current_address, st.current_notes, page_num))
    ELSE st.visits

\* the state of the scan before the first line
ScanStart ==
    [current_stop |-> None, current_address |-> None, current_notes |-> <<>>, visits |-> <<>>]

\* "if stop_match:" the stop line ends its match at m
StartStop(st, lines, i, page_num, line, m) ==
    [current_stop    |-> Some(ToInt(SubSeq(line, 1, m - 1))),
     current_address |-> SameLineOrAhead(extract_address(Strip(SubSeq(line, m + 1, Len(line)))), lines, i),
     current_notes   |-> <<>>,
     visits          |-> Finalize(st, page_num)]

\* variant: a stop whose look-ahead failed stays without address
FindAddress_giving_up(st, line) == st

\* "elif current_stop is not None and not current_address:"
FindAddress(st, line) == [st EXCEPT !.current_address = extract_address(line)]

\* "elif current_stop is not None:"
CollectNote(st, line) ==
    IF ~IsHeaderLine(line) THEN [st EXCEPT !.current_notes = Append(@, line)] ELSE st

\* "not current_address"
NoAddress(st) == IF st.current_address = None THEN TRUE ELSE Val(st.current_address) = ""

\* the branches of the loop body for a non-empty line
ScanMatched(st, lines, i, page_num, line, m) ==
    IF m > 0 THEN StartStop(st, lines, i, page_num, line, m)
    ELSE IF st.current_stop # None /\ NoAddress(st) THEN FindAddress(st, line)
    ELSE IF st.current_stop # None THEN CollectNote(st, line)
    ELSE st

ScanStripped(st, lines, i, page_num, line) ==
    IF line = "" THEN st ELSE ScanMatched(st, lines, i, page_num, line, StopMatchEnd(line))

\* one iteration of "for i, line in enumerate(lines)" on lines[i] (1-based)
ScanLine(st, lines, i, page_num) == ScanStripped(st, lines, i, page_num, Strip(lines[i]))

RECURSIVE ScanFrom(_, _, _, _)
ScanFrom(st, lines, i, page_num) ==
    IF i > Len(lines) THEN Finalize(st, page_num)
    ELSE ScanFrom(ScanLine(st, lines, i, page_num), lines, i + 1, page_num)

extract_visits_from_text(text, page_num) == ScanFrom(ScanStart, SplitOn(text, "\n"), 1, page_num)

(***************************************************************************)
(* _clean_visits (src/parser.py:408-432)                                   *)
(***************************************************************************)
MinStop == 1
MaxStop == 100
MinLocationLen == 10

\* variant: the length test admits a 9-character location
IncompleteLocation_len9(location) ==
    \/ location = None
    \/ Val(location) = ""
    \/ Len(Val(location)) < MinLocationLen - 1

\* "not visit['location'] or len(visit['location']) < 10"
IncompleteLocation(location) ==
    \/ location = None
    \/ Val(location) = ""
    \/ Len(Val(location)) < MinLocationLen

RECURSIVE CleanLoop(_, _, _, _)
\* the for-loop of _clean_visits from position k on
CleanLoop(vs, k, acc, seen_stops) ==
    IF k > Len(vs) THEN acc
    ELSE IF vs[k].stop \in seen_stops THEN CleanLoop(vs, k + 1, acc, seen_stops)
    ELSE IF IncompleteLocation(vs[k].location) THEN CleanLoop(vs, k + 1, acc, seen_stops)
    ELSE IF vs[k].stop < MinStop \/ vs[k].stop > MaxStop THEN CleanLoop(vs, k + 1, acc, seen_stops)
    ELSE CleanLoop(vs, k + 1, Append(acc, vs[k]), seen_stops \cup {vs[k].stop})

RECURSIVE InsertByStop(_, _)
\* insert v behind every element whose key is not greater (stable)
InsertByStop(sorted, v) ==
    IF sorted = <<>> THEN <<v>>
    ELSE IF Head(sorted).stop <= v.stop THEN <<Head(sorted)>> \o InsertByStop(Tail(sorted), v)
    ELSE <<v>> \o sorted

RECURSIVE SortByStop(_)
\* list.sort(key=lambda x: x["stop"]), a stable sort
SortByStop(vs) ==
    IF vs = <<>> THEN <<>>
    ELSE InsertByStop(SortByStop(SubSeq(vs, 1, Len(vs) - 1)), vs[Len(vs)])

\* variant: the final sort is missing
clean_visits_unsorted(vs) == CleanLoop(vs, 1, <<>>, {})

RECURSIVE CleanLoopSeenFirst(_, _, _, _)
\* variant: a stop number counts as seen as soon as it is read
CleanLoopSeenFirst(vs, k, acc, seen_stops) ==
    IF k > Len(vs) THEN acc
    ELSE IF vs[k].stop \in seen_stops THEN CleanLoopSeenFirst(vs, k + 1, acc, seen_stops)
    ELSE IF IncompleteLocation(vs[k].location) \/ vs[k].stop < MinStop \/ vs[k].stop > MaxStop
         THEN CleanLoopSeenFirst(vs, k + 1, acc, seen_stops \cup {vs[k].stop})
    ELSE CleanLoopSeenFirst(vs, k + 1, Append(acc, vs[k]), seen_stops \cup {vs[k].stop})

clean_visits_seen_first(vs) == SortByStop(CleanLoopSeenFirst(vs, 1, <<>>, {}))

clean_visits(vs) == SortByStop(CleanLoop(vs, 1, <<>>, {}))

(***************************************************************************)
(* Specification SpecClean: _clean_visits applied to a bounded batch       *)
(***************************************************************************)
MaxVisits == 3

BatchStops == {MinStop - 1, MinStop, MaxStop, MaxStop + 1}
BatchLocations == {None, Some("12 Oak St"), Some("123 Oak St"), Some("4900 S Monaco St")}
BatchVisits == [stop : BatchStops, location : BatchLocations]

\* the sequences over S of length n
SeqsOfLen(S, n) == [1..n -> S]
\* the sequences over S of length at most n
SeqsUpTo(S, n) == UNION {SeqsOfLen(S, m) : m \in 0..n}

CleanInit ==
    /\ pc = "clean"
    /\ visits \in SeqsUpTo(BatchVisits, MaxVisits)
    /\ cleaned = <<>>
    /\ LinesIdle /\ StopIdle /\ NameIdle /\ TimeIdle /\ ParseIdle /\ SharedIdle
    /\ CardIdle /\ ResolveIdle

CleanVisits ==
    /\ pc = "clean"
    /\ cleaned' = clean_visits(visits)
    /\ pc' = "cleaned"
    /\ UNCHANGED <<visits, scanVars, nameVars, timeVars, parseVars, sharedVars,
                   cardVars, resolveVars>>

CleanNext == CleanVisits

SpecClean == CleanInit /\ [][CleanNext]_vars

\* C1: the list returned by _clean_visits is in strictly ascending stop-number
\* order (so its stop numbers are pairwise distinct) and holds no stop
\* number below 1 or above 100.
C1_StopsUniqueSortedInRange ==
    pc = "cleaned" =>
        /\ \A a, b \in 1..Len(cleaned) : a < b => cleaned[a].stop < cleaned[b].stop
        /\ \A a \in 1..Len(cleaned) : cleaned[a].stop >= 1 /\ cleaned[a].stop <= 100

\* a batch in descending order with an out-of-range stop in the middle
C1_Witness ==
    /\ pc = "cleaned"
    /\ Len(visits) = 3
    /\ visits[1].stop = 100 /\ visits[2].stop = 101 /\ visits[3].stop = 1
    /\ Len(cleaned) = 2

\* C2: every visit returned by _clean_visits has a non-null location of at
\* least 10 characters.
C2_LocationAtLeastTen ==
    pc = "cleaned" =>
        \A a \in 1..Len(cleaned) :
            /\ cleaned[a].location # None
            /\ Len(Val(cleaned[a].location)) >= 10

\* a batch with a null location, a 9-character one and a 10-character one
C2_Witness ==
    /\ pc = "cleaned"
    /\ \E a, b, c \in 1..Len(visits) :
          /\ visits[a].location = None
          /\ visits[b].location # None /\ Len(Val(visits[b].location)) = 9
          /\ visits[c].location # None /\ Len(Val(visits[c].location)) = 10
    /\ Len(cleaned) = 1

FirstIndex(S) == CHOOSE i \in S : \A j \in S : i <= j
WithStop(vs, s) == {i \in 1..Len(vs) : vs[i].stop = s}
OutputWithStop(s) == {a \in 1..Len(cleaned) : cleaned[a].stop = s}

\* C3 as claimed: when several records of the batch carry the same stop
\* number (one the clean-up admits, 1..100), the output contains the record
\* that occurs first among them and no later record with that number.
C3_FirstOccurrenceWins ==
    pc = "cleaned" =>
        \A s \in 1..100 :
            Cardinality(WithStop(visits, s)) >= 2 =>
                /\ Cardinality(OutputWithStop(s)) = 1
                /\ \A a \in OutputWithStop(s) : cleaned[a] = visits[FirstIndex(WithStop(visits, s))]

Complete(vs, s) ==
    {i \in WithStop(vs, s) : vs[i].location # None /\ Len(Val(vs[i].location)) >= 10}

\* C3 amended: among the records carrying one stop number of 1..100, the
\* output contains the first one whose location has at least 10 characters
\* and no other; it contains none when no such record exists.
C3_FirstCompleteOccurrenceWins ==
    pc = "cleaned" =>
        \A s \in 1..100 :
            IF Complete(visits, s) = {}
            THEN OutputWithStop(s) = {}
            ELSE /\ Cardinality(OutputWithStop(s)) = 1
                 /\ \A a \in OutputWithStop(s) : cleaned[a] = visits[FirstIndex(Complete(visits, s))]

\* three records with stop 1: a 9-character location, then two complete ones
C3_Witness ==
    /\ pc = "cleaned"
    /\ Len(visits) = 3
    /\ \A i \in 1..3 : visits[i].stop = 1
    /\ visits[1].location = Some("12 Oak St")
    /\ visits[2].location = Some("123 Oak St")
    /\ visits[3].location = Some("4900 S Monaco St")
    /\ cleaned = <<visits[2]>>

(***************************************************************************)
(* Specification SpecName: _infer_business_name applied to an address and  *)
(* a list of notes                                                         *)
(***************************************************************************)
Addresses == {"6001 E Woodmen Rd", "4900 S Monaco St", "3105 W Arkansas Ave", "12 Oak St",
              "123 Urgent Care Rd", "1400 Memorial Hospital Dr", "55 Penrose Clinic Way",
              "10 Erie St", "8 Cedar Run at Pine, Unit 4", "x", " "}

NotesLists == {<<>>,
               <<"ETA 11:19 AM 12m 4.46 mi.">>,
               <<"ETA 12:15 PM 24m 11.05 mi.">>,
               <<"Lead case manager Gail Abeyta">>,
               <<"Penrose Hospital">>,
               <<"Ask at Front Desk medical wing">>,
               <<"gate code", "Urgent Care">>,
               <<"see the care team">>,
               <<"">>}

NameInit ==
    /\ pc = "infer"
    /\ given_address \in Addresses
    /\ given_notes \in NotesLists
    /\ inferred_name = ""
    /\ CleanIdle /\ LinesIdle /\ StopIdle /\ TimeIdle /\ ParseIdle /\ SharedIdle
    /\ CardIdle /\ ResolveIdle

InferBusinessName ==
    /\ pc = "infer"
    /\ inferred_name' = infer_business_name(given_address, given_notes)
    /\ pc' = "inferred"
    /\ UNCHANGED <<given_address, given_notes, cleanVars, scanVars, timeVars, parseVars, sharedVars,
                   cardVars, resolveVars>>

NameNext == InferBusinessName

SpecName == NameInit /\ [][NameNext]_vars

\* C7: _infer_business_name returns a non-empty string for every non-empty
\* address and every list of notes; when no tier yields a name the result is
\* the literal "Healthcare Facility"; the visit _create_visit builds from the
\* address and the notes has a non-empty business_name.
C7_NameNeverEmpty ==
    pc = "inferred" =>
        /\ inferred_name # ""
        /\ (/\ FacilityLookup(TextToSearch(given_address, given_notes), 1) = None
            /\ extract_business_name_from_address(given_address, given_notes) = None)
               => inferred_name = "Healthcare Facility"
        /\ create_visit(1, Some(given_address), given_notes, 1) # None
        /\ Val(create_visit(1, Some(given_address), given_notes, 1)).business_name # ""

\* no keyword, no category word, a 3-letter street name and no usable note:
\* every tier fails and the default is returned
C7_Witness ==
    /\ pc = "inferred"
    /\ given_address = "12 Oak St"
    /\ given_notes = <<"ETA 11:19 AM 12m 4.46 mi.">>
    /\ inferred_name = "Healthcare Facility"

\* the dictionary entries whose keyword occurs in the text
EntriesIn(text) == {n \in 1..Len(known_facilities) : Contains(text, known_facilities[n][1])}

\* C8 as claimed: for an address that contains a known-facility keyword the
\* resolver returns the canonical name of the first dictionary entry whose
\* keyword occurs in the address, whatever the notes are.
C8_AddressKeywordDecides ==
    (pc = "inferred" /\ EntriesIn(Lower(given_address)) # {}) =>
        inferred_name = known_facilities[Min(EntriesIn(Lower(given_address)))][2]

\* C8 amended: the resolver returns the canonical name of the first
\* dictionary entry whose keyword occurs in the lower-cased text made of the
\* address, a space and the notes joined by spaces; with the empty notes list
\* this is the first entry whose keyword occurs in the address.
C8_FirstKeywordOfAddressAndNotes ==
    (pc = "inferred" /\ EntriesIn(Lower(given_address)) # {}) =>
        /\ inferred_name =
               known_facilities[Min(EntriesIn(Lower(given_address \o " " \o Join(given_notes, " "))))][2]
        /\ given_notes = <<>> =>
               inferred_name = known_facilities[Min(EntriesIn(Lower(given_address)))][2]

\* "urgent care" in the address, the earlier entry "penrose hospital" in the notes
C8_Witness ==
    /\ pc = "inferred"
    /\ given_address = "123 Urgent Care Rd"
    /\ given_notes = <<"Penrose Hospital">>
    /\ inferred_name = "Penrose Hospital"

\* C9 as claimed: for "6001 E Woodmen Rd" with the note "Lead case manager
\* Gail Abeyta" no known-facility keyword matches and the resolver returns
\* the street-derived name "Woodmen".
C9_WoodmenExample ==
    (/\ pc = "inferred"
     /\ given_address = "6001 E Woodmen Rd"
     /\ given_notes = <<"Lead case manager Gail Abeyta">>)
        => /\ EntriesIn(TextToSearch(given_address, given_notes)) = {}
           /\ inferred_name = "Woodmen"

(***************************************************************************)
(* Specification SpecScan: _extract_visits_from_text, one loop iteration   *)
(* per step, on a bounded page                                             *)
(***************************************************************************)
MaxLines == 4

PageLines == {"1. 123 Main St", "2.", "77 Elm Rd", "Suite 5 at 9 Elm Rd",
              "Gate code", "Driver: Bob", ""}

\* the page text whose text_lines are ls
PageText(ls) == Join(ls, "\n")

Scan ==
    [current_stop |-> current_stop, current_address |-> current_address,
     current_notes |-> current_notes, visits |-> page_visits]

SetScan(st) ==
    /\ current_stop' = st.current_stop
    /\ current_address' = st.current_address
    /\ current_notes' = st.current_notes
    /\ page_visits' = st.visits

ScanInit ==
    /\ pc = "scan"
    /\ \E ls \in SeqsUpTo(PageLines, MaxLines) : text_lines = SplitOn(PageText(ls), "\n")
    /\ idx = 1
    /\ current_stop = None /\ current_address = None /\ current_notes = <<>>
    /\ page_visits = <<>>
    /\ CleanIdle /\ NameIdle /\ TimeIdle /\ ParseIdle /\ SharedIdle
    /\ CardIdle /\ ResolveIdle

\* the loop reads the line at idx
Reading == pc = "scan" /\ idx <= Len(text_lines)

Advance(st) ==
    /\ SetScan(st)
    /\ idx' = idx + 1
    /\ UNCHANGED <<pc, text_lines, cleanVars, nameVars, timeVars, parseVars, sharedVars,
                   cardVars, resolveVars>>

\* "if not line: continue"
ScanBlankLine ==
    /\ Reading
    /\ Strip(text_lines[idx]) = ""
    /\ Advance(Scan)

\* "if stop_match:" finalize the active stop and start the next one
ScanStopLine ==
    /\ Reading
    /\ Strip(text_lines[idx]) # ""
    /\ StopMatchEnd(Strip(text_lines[idx])) > 0
    /\ Advance(StartStop(Scan, text_lines, idx, 1, Strip(text_lines[idx]),
                         StopMatchEnd(Strip(text_lines[idx]))))

\* "elif current_stop is not None and not current_address:"
ScanAddressLine ==
    /\ Reading
    /\ Strip(text_lines[idx]) # ""
    /\ StopMatchEnd(Strip(text_lines[idx])) = 0
    /\ current_stop # None /\ NoAddress(Scan)
    /\ Advance(FindAddress(Scan, Strip(text_lines[idx])))

\* "elif current_stop is not None:" collect notes
ScanNoteLine ==
    /\ Reading
    /\ Strip(text_lines[idx]) # ""
    /\ StopMatchEnd(Strip(text_lines[idx])) = 0
    /\ current_stop # None /\ ~NoAddress(Scan)
    /\ Advance(CollectNote(Scan, Strip(text_lines[idx])))

\* a line before the first stop of the page matches no branch
ScanLeadingLine ==
    /\ Reading
    /\ Strip(text_lines[idx]) # ""
    /\ StopMatchEnd(Strip(text_lines[idx])) = 0
    /\ current_stop = None
    /\ Advance(Scan)

\* variant: the stop still active at the end of the page is forgotten
ScanReturn_without_flush ==
    /\ pc = "scan"
    /\ idx > Len(text_lines)
    /\ pc' = "scanned"
    /\ UNCHANGED <<scanVars, cleanVars, nameVars, timeVars, parseVars, sharedVars,
                   cardVars, resolveVars>>

\* end of the page: flush the active stop and return
ScanReturn ==
    /\ pc = "scan"
    /\ idx > Len(text_lines)
    /\ page_visits' = Finalize(Scan, 1)
    /\ pc' = "scanned"
    /\ UNCHANGED <<lineVars, current_stop, current_address, current_notes,
                   cleanVars, nameVars, timeVars, parseVars, sharedVars,
                   cardVars, resolveVars>>

ScanNext ==
    \/ ScanBlankLine
    \/ ScanStopLine
    \/ ScanAddressLine
    \/ ScanNoteLine
    \/ ScanLeadingLine
    \/ ScanReturn

SpecScan == ScanInit /\ [][ScanNext]_vars

\* the stop-number lines of the page, and the stop-number line after line k
StopLines == {k \in 1..Len(text_lines) : StopMatchEnd(Strip(text_lines[k])) > 0}
NextStopLine(k) == MinOr({j \in StopLines : j > k}, Len(text_lines) + 1)

\* the number a stop-number line starts with
StopNumber(k) ==
    ToInt(SubSeq(Strip(text_lines[k]), 1, StopMatchEnd(Strip(text_lines[k])) - 1))

\* an address is found for the stop of line k: behind the number on its own
\* line, on one of the next 2 lines, or on a later line of the stop
AddressFound(k) ==
    \/ extract_address(SubSeq(Strip(text_lines[k]), StopMatchEnd(Strip(text_lines[k])) + 1,
                              Len(Strip(text_lines[k])))) # None
    \/ \E j \in (k + 1)..(k + 2) : j <= Len(text_lines) /\ extract_address(text_lines[j]) # None
    \/ \E j \in (k + 1)..(NextStopLine(k) - 1) : extract_address(Strip(text_lines[j])) # None

RECURSIVE StopsWithAddress(_)
\* the numbers of the stops from line k on for which an address is found
StopsWithAddress(k) ==
    IF k > Len(text_lines) THEN <<>>
    ELSE (IF k \in StopLines /\ AddressFound(k) THEN <<StopNumber(k)>> ELSE <<>>)
             \o StopsWithAddress(k + 1)

StopsOf(vs) == [a \in 1..Len(vs) |-> vs[a].stop]

\* the visits returned for the page: one per stop with an address, in order
C4_Returned == pc = "scanned" => StopsOf(page_visits) = StopsWithAddress(1)

\* the steps that finalize: reading a stop-number line, or the page end
AtStopLine == pc = "scan" /\ idx \in StopLines
AtPageEnd == pc = "scan" /\ idx > Len(text_lines)

\* a finalizing step emits the active stop if and only if it has an address;
\* no other step emits a visit or changes the active stop
C4_Step ==
    IF AtStopLine \/ AtPageEnd
    THEN /\ IF current_stop # None /\ current_address # None
            THEN /\ Len(page_visits') = Len(page_visits) + 1
                 /\ SubSeq(page_visits', 1, Len(page_visits)) = page_visits
                 /\ page_visits'[Len(page_visits')].stop = Val(current_stop)
            ELSE page_visits' = page_visits
         /\ AtStopLine => current_stop' = Some(StopNumber(idx))
    ELSE page_visits' = page_visits /\ current_stop' = current_stop

\* C4: within one page the active stop is finalized exactly when the next
\* stop-number line is read or the page ends; the function returns one visit
\* for each stop for which an address was found and none for a stop without
\* address, in the order of the stop-number lines.
C4_FinalizedAtStopLineOrPageEnd == []C4_Returned /\ [][C4_Step]_vars

\* a stop without address, two notes out of reach of the look-ahead, and a
\* later stop that is returned
C4_Witness ==
    /\ pc = "scanned"
    /\ text_lines = <<"2.", "Gate code", "Gate code", "1. 123 Main St">>
    /\ StopsOf(page_visits) = <<1>>

(***************************************************************************)
(* _extract_time_data (src/parser.py:127-167)                              *)
(*                                                                         *)
(* The date and hours patterns are searched with re.IGNORECASE, so their   *)
(* literals are matched against the lower-cased line; a match is the pair  *)
(* <<first, last>> of the positions of group(1), <<>> when there is none.  *)
(***************************************************************************)
DateSeps == {"/", "-"}

\* \d{n} at i: the position of its last digit, 0 when it fails
DigitsEnd(s, i, n) ==
    IF /\ i >= 1
       /\ i + n - 1 <= Len(s)
       /\ \A j \in i..(i + n - 1) : IsDigit(Ch(s, j))
    THEN i + n - 1
    ELSE 0

\* \d{n1}[/-]\d{n2}[/-]\d{n3} at i: the position of its last digit, 0 when it fails
DateEndAt(s, i, n1, n2, n3) ==
    IF /\ DigitsEnd(s, i, n1) # 0
       /\ Ch(s, i + n1) \in DateSeps
       /\ DigitsEnd(s, i + n1 + 1, n2) # 0
       /\ Ch(s, i + n1 + n2 + 1) \in DateSeps
       /\ DigitsEnd(s, i + n1 + n2 + 2, n3) # 0
    THEN i + n1 + n2 + n3 + 1
    ELSE 0

RECURSIVE FirstHit(_)
\* the first non-zero end of the alternatives a backtracking matcher tries in order
FirstHit(ends) ==
    IF ends = <<>> THEN 0
    ELSE IF Head(ends) # 0 THEN Head(ends)
    ELSE FirstHit(Tail(ends))

Weekdays == <<"monday", "tuesday", "wednesday", "thursday", "friday", "saturday", "sunday">>

\* (monday|tuesday|...) at i of the lower-cased line
WeekdayEndAt(ls, i) ==
    FirstHit([n \in 1..Len(Weekdays) |->
                 IF MatchAt(ls, i, Weekdays[n]) THEN i + Len(Weekdays[n]) - 1 ELSE 0])

\* date_patterns[p] at i, greedy {1,2} first: the last position of the match, 0 when it fails
DatePatternEndAt(ls, i, p) ==
    CASE p = 1 -> FirstHit(<<DateEndAt(ls, i, 2, 2, 4), DateEndAt(ls, i, 2, 1, 4),
                             DateEndAt(ls, i, 1, 2, 4), DateEndAt(ls, i, 1, 1, 4)>>)
      [] p = 2 -> FirstHit(<<DateEndAt(ls, i, 4, 2, 2), DateEndAt(ls, i, 4, 2, 1),
                             DateEndAt(ls, i, 4, 1, 2), DateEndAt(ls, i, 4, 1, 1)>>)
      [] OTHER -> WeekdayEndAt(ls, i)

\* match.group(1) of the leftmost match, taken from the line as written
DateGroup(line, ls, p, starts) ==
    IF starts = {} THEN None
    ELSE Some(SubSeq(line, Min(starts), DatePatternEndAt(ls, Min(starts), p)))

\* re.search(date_patterns[p], line, re.IGNORECASE)
DateSearch(line, ls, p) ==
    DateGroup(line, ls, p, {i \in 1..Len(ls) : DatePatternEndAt(ls, i, p) # 0})

NumDatePatterns == 3

RECURSIVE FirstDate(_, _, _)
\* for pattern in date_patterns: the group of the first pattern that matches
FirstDate(line, ls, p) ==
    IF p > NumDatePatterns THEN None
    ELSE IF DateSearch(line, ls, p) # None THEN DateSearch(line, ls, p)
    ELSE FirstDate(line, ls, p + 1)

\* "if match and not date: date = match.group(1); break"
DateStep(found, line) ==
    IF found # None THEN found ELSE FirstDate(line, Lower(line), 1)

HourSepChars == SpaceChars \cup {":"}

\* [:\s]+ after a label that ends at label_end, then a digit: where the
\* number starts, 0 when it fails
NumberStart(ls, label_end) ==
    IF /\ RunEnd(ls, label_end + 1, HourSepChars) > label_end
       /\ IsDigit(Ch(ls, RunEnd(ls, label_end + 1, HourSepChars) + 1))
    THEN RunEnd(ls, label_end + 1, HourSepChars) + 1
    ELSE 0

\* \.?\d* after the digits that end at d1
FractionEnd(ls, d1) ==
    IF Ch(ls, d1 + 1) = "." THEN RunEnd(ls, d1 + 2, DigitChars) ELSE d1

\* (\d+\.?\d*) starting at the digit at ns, greedy
NumberEnd(ls, ns) == FractionEnd(ls, RunEnd(ls, ns, DigitChars))

\* ... followed by \s*hours? ; a shorter number leaves a digit or a dot
\* before "hour", so only the greedy one can match
HoursAfter(ls, ns, e) ==
    IF MatchAt(ls, NextNotIn(ls, e + 1, SpaceChars), "hour") THEN <<ns, e>> ELSE <<>>

SuffixedNumber(ls, ns) == IF ns = 0 THEN <<>> ELSE HoursAfter(ls, ns, NumberEnd(ls, ns))

PlainNumber(ls, ns) == IF ns = 0 THEN <<>> ELSE <<ns, NumberEnd(ls, ns)>>

\* hours_patterns[p] at i
HoursGroupAt(ls, i, p) ==
    CASE p = 1 -> IF MatchAt(ls, i, "total")
                  THEN SuffixedNumber(ls, NumberStart(ls, i + 4)) ELSE <<>>
      [] p = 2 -> IF MatchAt(ls, i, "hour")
                  THEN PlainNumber(ls, NumberStart(ls, IF Ch(ls, i + 4) = "s" THEN i + 4 ELSE i + 3))
                  ELSE <<>>
      [] p = 3 -> IF MatchAt(ls, i, "total")
                  THEN PlainNumber(ls, NumberStart(ls, i + 4)) ELSE <<>>
      [] OTHER -> IF IsDigit(Ch(ls, i))
                  THEN HoursAfter(ls, i, NumberEnd(ls, i)) ELSE <<>>

HoursLeftmost(ls, p, starts) ==
    IF starts = {} THEN <<>> ELSE HoursGroupAt(ls, Min(starts), p)

\* re.search(hours_patterns[p], line, re.IGNORECASE)
HoursSearch(ls, p) ==
    HoursLeftmost(ls, p, {i \in 1..Len(ls) : HoursGroupAt(ls, i, p) # <<>>})

RECURSIVE StripZeros(_)
StripZeros(ds) ==
    IF ds # "" /\ Ch(ds, Len(ds)) = "0" THEN StripZeros(SubSeq(ds, 1, Len(ds) - 1)) ELSE ds

\* the value of the digits before the dot at position dot and of those after it
FloatParts(ds, dot) ==
    [whole |-> ToInt(SubSeq(ds, 1, dot - 1)),
     frac  |-> IF dot >= Len(ds) THEN "" ELSE StripZeros(SubSeq(ds, dot + 1, Len(ds)))]

\* float(ds) for ds matching \d+\.?\d* : the integer part and the decimals
\* without trailing zeros, which is the value exactly
ToFloat(ds) == FloatParts(ds, NextIn(ds, 1, {"."}))

\* "not x" for a float
IsZeroFloat(f) == f.whole = 0 /\ f.frac = ""

GroupFloat(line, g) == Some(ToFloat(SubSeq(line, g[1], g[2])))

NumHoursPatterns == 4

\* where the match of hours pattern p begins in the lower-cased line (0: no match)
HoursMatchStart(ls, p) == MinOr({i \in 1..Len(ls) : HoursGroupAt(ls, i, p) # <<>>}, 0)

\* variant: the pattern whose match begins leftmost in the line supplies the value
FirstHours_leftmost(line, ls, p) ==
    IF \A q \in p..NumHoursPatterns : HoursSearch(ls, q) = <<>> THEN None
    ELSE GroupFloat(line, HoursSearch(ls,
             CHOOSE q \in p..NumHoursPatterns :
                 /\ HoursSearch(ls, q) # <<>>
                 /\ \A r \in p..NumHoursPatterns :
                        HoursSearch(ls, r) # <<>> => HoursMatchStart(ls, q) <= HoursMatchStart(ls, r)))

RECURSIVE FirstHours(_, _, _)
\* for pattern in hours_patterns: the float of the first pattern that matches
FirstHours(line, ls, p) ==
    IF p > NumHoursPatterns THEN None
    ELSE IF HoursSearch(ls, p) # <<>> THEN GroupFloat(line, HoursSearch(ls, p))
    ELSE FirstHours(line, ls, p + 1)

\* "not total_hours": None, or the float 0.0
NoHours(found) == IF found = None THEN TRUE ELSE IsZeroFloat(Val(found))

KeepOr(found, match) == IF match = None THEN found ELSE match

\* "if match and not total_hours: total_hours = float(match.group(1)); break"
HoursStep(found, line) ==
    IF NoHours(found) THEN KeepOr(found, FirstHours(line, Lower(line), 1)) ELSE found

RECURSIVE TimeLoop(_, _, _, _)
\* for line in lines: ...
TimeLoop(lines, i, found_date, found_hours) ==
    IF i > Len(lines) THEN <<found_date, found_hours>>
    ELSE TimeLoop(lines, i + 1, DateStep(found_date, Strip(lines[i])),
                  HoursStep(found_hours, Strip(lines[i])))

\* _extract_time_data(text): the tuple (date, total_hours)
extract_time_data(text) == TimeLoop(SplitOn(text, "\n"), 1, None, None)

(***************************************************************************)
(* Specification SpecTime: the loop of _extract_time_data, one line a step *)
(***************************************************************************)
MaxTimeLines == 3

SheetLines == {"03/06/2025", "2025-03-07", "Monday", "Total: 7.5 hours", "Total: 0 hours",
               "Hours: 8", "Clock in", "Total: 8 hours 03/08/2025", "2 hours, total: 7.5"}

TimeInit ==
    /\ pc = "time"
    /\ \E ls \in SeqsUpTo(SheetLines, MaxTimeLines) : text_lines = SplitOn(Join(ls, "\n"), "\n")
    /\ idx = 1
    /\ date = None
    /\ total_hours = None
    /\ CleanIdle /\ StopIdle /\ NameIdle /\ ParseIdle /\ SharedIdle
    /\ CardIdle /\ ResolveIdle

\* one pass of "for line in lines"
ReadTimeLine ==
    /\ pc = "time"
    /\ idx <= Len(text_lines)
    /\ date' = DateStep(date, Strip(text_lines[idx]))
    /\ total_hours' = HoursStep(total_hours, Strip(text_lines[idx]))
    /\ idx' = idx + 1
    /\ UNCHANGED <<pc, text_lines, stopVars, cleanVars, nameVars, parseVars, sharedVars,
                   cardVars, resolveVars>>

\* "return date, total_hours"
TimeReturn ==
    /\ pc = "time"
    /\ idx > Len(text_lines)
    /\ pc' = "timed"
    /\ UNCHANGED <<scanVars, cleanVars, nameVars, timeVars, parseVars, sharedVars,
                   cardVars, resolveVars>>

TimeNext == ReadTimeLine \/ TimeReturn

SpecTime == TimeInit /\ [][TimeNext]_vars

\* C10 as claimed: the time-data scan keeps the first accepted date and the
\* first accepted hours value; once either is set, later lines do not
\* replace it.
C10_FirstAcceptedIsKept ==
    [][/\ date # None => date' = date
       /\ total_hours # None => total_hours' = total_hours]_vars

(***************************************************************************)
(* detect_pdf_type, parse_pdf, parse_time_tracking_pdf and                 *)
(* parse_myway_route_pdf (src/parser.py:50-125, 169-199)                   *)
(*                                                                         *)
(* A document is what pdfplumber makes of the bytes: opens tells whether   *)
(* pdfplumber.open succeeds, and each page says whether its extract_text() *)
(* raises and otherwise the text it returns (None for a page without       *)
(* text).                                                                  *)
(***************************************************************************)
time_indicators == <<"time tracking", "hours worked", "daily hours", "total hours",
                     "clock in", "clock out", "break", "lunch", "start time", "end time",
                     "time sheet", "timesheet", "work log", "daily log">>

route_indicators == <<"myway", "route", "stop", "visits", "delivery", "pickup",
                      "address", "location", "business", "facility">>

NumDetectPages == 3

\* pdf.pages[:3]
FirstPages(pages) ==
    SubSeq(pages, 1, IF Len(pages) < NumDetectPages THEN Len(pages) ELSE NumDetectPages)

\* "if page_text:"
Truthy(page_text) == IF page_text = None THEN FALSE ELSE Val(page_text) # ""

\* some extract_text() of these pages raises
Raises(pages) == \E n \in 1..Len(pages) : pages[n].raises

RECURSIVE DetectText(_, _)
\* text += page_text.lower()
DetectText(pages, n) ==
    IF n > Len(pages) THEN ""
    ELSE (IF Truthy(pages[n].text) THEN Lower(Val(pages[n].text)) ELSE "")
             \o DetectText(pages, n + 1)

RECURSIVE Score(_, _, _)
\* sum(1 for indicator in indicators if indicator in text)
Score(text, indicators, n) ==
    IF n > Len(indicators) THEN 0
    ELSE (IF Contains(text, indicators[n]) THEN 1 ELSE 0) + Score(text, indicators, n + 1)

\* variant: a tie between the two scores counts as a time sheet
ClassifyScores_tie(time_score, route_score) ==
    IF time_score >= route_score /\ time_score > 0 THEN "time_tracking" ELSE "myway_route"

\* "if time_score > route_score and time_score > 0"
ClassifyScores(time_score, route_score) ==
    IF time_score > route_score /\ time_score > 0 THEN "time_tracking" ELSE "myway_route"

ClassifyText(text) ==
    ClassifyScores(Score(text, time_indicators, 1), Score(text, route_indicators, 1))

\* detect_pdf_type(pdf_content); the except branch answers "myway_route"
detect_pdf_type(doc) ==
    IF ~doc.opens THEN "myway_route"
    ELSE IF Raises(FirstPages(doc.pages)) THEN "myway_route"
    ELSE ClassifyText(DetectText(FirstPages(doc.pages), 1))

\* str(e) of the exception the document raises
ErrorOf(doc) == IF ~doc.opens THEN "open failed" ELSE "extract_text failed"

\* the dictionary of the except branch of a parser
Failure(kind, doc) == [type |-> kind, success |-> FALSE, error |-> ErrorOf(doc)]

\* the try block of a parser is left by an exception
Fails(doc) == IF ~doc.opens THEN TRUE ELSE Raises(doc.pages)

RECURSIVE TimeText(_, _)
\* text += page_text + "\n"
TimeText(pages, n) ==
    IF n > Len(pages) THEN ""
    ELSE (IF Truthy(pages[n].text) THEN Val(pages[n].text) \o "\n" ELSE "")
             \o TimeText(pages, n + 1)

TimeResult(data) ==
    [type |-> "time_tracking", date |-> data[1], total_hours |-> data[2], success |-> TRUE]

parse_time_tracking_pdf(doc) ==
    IF Fails(doc) THEN Failure("time_tracking", doc)
    ELSE TimeResult(extract_time_data(TimeText(doc.pages, 1)))

RECURSIVE RouteVisits(_, _)
\* visits.extend(self._extract_visits_from_text(text, page_num + 1))
RouteVisits(pages, n) ==
    IF n > Len(pages) THEN <<>>
    ELSE (IF Truthy(pages[n].text) THEN extract_visits_from_text(Val(pages[n].text), n) ELSE <<>>)
             \o RouteVisits(pages, n + 1)

RouteResult(cleaned_visits) ==
    [type |-> "myway_route", visits |-> cleaned_visits, count |-> Len(cleaned_visits),
     success |-> TRUE]

\* variant: a document that fails is reported as a route without visits
parse_myway_route_pdf_empty_on_failure(doc) ==
    IF Fails(doc) THEN RouteResult(<<>>)
    ELSE RouteResult(clean_visits(RouteVisits(doc.pages, 1)))

parse_myway_route_pdf(doc) ==
    IF Fails(doc) THEN Failure("myway_route", doc)
    ELSE RouteResult(clean_visits(RouteVisits(doc.pages, 1)))

(***************************************************************************)
(* Specification SpecParse: the three public entry points on a bounded     *)
(* document; parse_pdf is detect_pdf_type followed by the parser it picks  *)
(***************************************************************************)
MaxPages == 4

TimePage == [raises |-> FALSE,
             text |-> Some("Timesheet\nHours Worked\nTotal: 7.5 hours\n03/06/2025")]
RoutePage == [raises |-> FALSE,
              text |-> Some("Stop 1\nStop 2\nAddress\n1. 123 Main St\nGate code")]
TiePage == [raises |-> FALSE, text |-> Some("Daily Log\nRoute")]
BlankPage == [raises |-> FALSE, text |-> None]
BrokenPage == [raises |-> TRUE, text |-> None]

Pages == {TimePage, RoutePage, TiePage, BlankPage, BrokenPage}

Documents ==
    {[opens |-> FALSE, pages |-> <<>>]}
        \cup {[opens |-> TRUE, pages |-> ps] : ps \in SeqsUpTo(Pages, MaxPages)}

ParseInit ==
    /\ pc = "parse"
    /\ pdf_content \in Documents
    /\ pdf_type = ""
    /\ result = <<>>
    /\ page_no = 0
    /\ upload = <<>> /\ response = <<>>
    /\ CleanIdle /\ LinesIdle /\ StopIdle /\ NameIdle /\ TimeIdle /\ SharedIdle
    /\ CardIdle /\ ResolveIdle

\* parse_pdf: pdf_type = self.detect_pdf_type(pdf_content)
DetectPdfType ==
    /\ pc = "parse"
    /\ pdf_type' = detect_pdf_type(pdf_content)
    /\ pc' = "dispatch"
    /\ UNCHANGED <<pdf_content, page_no, upload, response, result, cleanVars, scanVars, nameVars, timeVars, sharedVars,
                   cardVars, resolveVars>>

\* parse_pdf: return self.parse_time_tracking_pdf(pdf_content)
ParseTimeTracking ==
    /\ pc = "dispatch"
    /\ pdf_type = "time_tracking"
    /\ result' = parse_time_tracking_pdf(pdf_content)
    /\ pc' = "returned"
    /\ UNCHANGED <<pdf_content, page_no, upload, response, pdf_type, cleanVars, scanVars, nameVars, timeVars, sharedVars,
                   cardVars, resolveVars>>

\* parse_pdf: return self.parse_myway_route_pdf(pdf_content)
ParseMywayRoute ==
    /\ pc = "dispatch"
    /\ pdf_type # "time_tracking"
    /\ result' = parse_myway_route_pdf(pdf_content)
    /\ pc' = "returned"
    /\ UNCHANGED <<pdf_content, page_no, upload, response, pdf_type, cleanVars, scanVars, nameVars, timeVars, sharedVars,
                   cardVars, resolveVars>>

\* parse_time_tracking_pdf called by itself
CallParseTimeTracking ==
    /\ pc = "parse"
    /\ result' = parse_time_tracking_pdf(pdf_content)
    /\ pc' = "returned"
    /\ UNCHANGED <<pdf_content, page_no, upload, response, pdf_type, cleanVars, scanVars, nameVars, timeVars, sharedVars,
                   cardVars, resolveVars>>

\* parse_myway_route_pdf called by itself
CallParseMywayRoute ==
    /\ pc = "parse"
    /\ result' = parse_myway_route_pdf(pdf_content)
    /\ pc' = "returned"
    /\ UNCHANGED <<pdf_content, page_no, upload, response, pdf_type, cleanVars, scanVars, nameVars, timeVars, sharedVars,
                   cardVars, resolveVars>>

ParseNext ==
    \/ DetectPdfType
    \/ ParseTimeTracking
    \/ ParseMywayRoute
    \/ CallParseTimeTracking
    \/ CallParseMywayRoute

SpecParse == ParseInit /\ [][ParseNext]_vars

\* the document cannot be opened, or one of the given pages cannot be read
Unreadable(doc, last) ==
    IF ~doc.opens THEN TRUE
    ELSE \E n \in 1..Len(doc.pages) : n <= last /\ doc.pages[n].raises

\* C5: no entry point raises.  When the document cannot be opened or a page
\* among the first three cannot be read, the detector answers "myway_route";
\* when the document cannot be opened or any page cannot be read, the parser
\* returns success = false with an error message and nothing else besides
\* the type: no visit list, no count, no date, no hours.
C5_FailuresAreContained ==
    /\ pc = "dispatch" =>
           /\ pdf_type \in {"time_tracking", "myway_route"}
           /\ Unreadable(pdf_content, 3) => pdf_type = "myway_route"
    /\ pc = "returned" =>
           /\ "success" \in DOMAIN result
           /\ result.success = ~Unreadable(pdf_content, Len(pdf_content.pages))
           /\ ~result.success =>
                  /\ DOMAIN result = {"type", "success", "error"}
                  /\ result.error # ""
                  /\ result.type \in {"time_tracking", "myway_route"}

\* three readable pages that look like a time sheet, then a page that cannot
\* be read: the detector says time_tracking and the parser reports failure
C5_Witness ==
    /\ pc = "returned"
    /\ pdf_type = "time_tracking"
    /\ Len(pdf_content.pages) = 4
    /\ ~Unreadable(pdf_content, 3)
    /\ pdf_content.pages[4].raises
    /\ result = [type |-> "time_tracking", success |-> FALSE, error |-> "extract_text failed"]

\* the lower-cased text of the first three pages, pages without text skipped
SeenText(doc) ==
    Lower(Join([n \in 1..Min({3, Len(doc.pages)}) |->
                   IF doc.pages[n].text = None THEN "" ELSE Val(doc.pages[n].text)], ""))

\* how many of the indicators occur in the text
Occurring(text, indicators) ==
    Cardinality({n \in 1..Len(indicators) : Contains(text, indicators[n])})

C6_Scores(text, time_score, route_score) ==
    /\ pdf_type = "time_tracking" <=> (time_score > 0 /\ time_score > route_score)
    /\ pdf_type # "time_tracking" => pdf_type = "myway_route"
    /\ (Contains(text, "timesheet") /\ Contains(text, "hours worked") /\ route_score = 0)
           => pdf_type = "time_tracking"
    /\ (/\ Contains(text, "stop 1") /\ Contains(text, "stop 2") /\ Contains(text, "address")
        /\ time_score = 0)
           => pdf_type = "myway_route"

\* C6: for a document whose first three pages can be read, the detector
\* answers "time_tracking" exactly when the number of time indicators that
\* occur in the lower-cased text of those pages is positive and greater than
\* the number of route indicators that occur in it, and "myway_route"
\* otherwise; "timesheet" with "hours worked" and no route word is a time
\* sheet, "stop 1", "stop 2" and "address" with no time word is a route.
C6_TimeSheetOnlyWhenTimeScoreWins ==
    (pc = "dispatch" /\ ~Unreadable(pdf_content, 3)) =>
        C6_Scores(SeenText(pdf_content),
                  Occurring(SeenText(pdf_content), time_indicators),
                  Occurring(SeenText(pdf_content), route_indicators))

\* both scores positive and the time score greater
C6_Witness ==
    /\ pc = "dispatch"
    /\ pdf_content.pages = <<TimePage, TiePage>>
    /\ Occurring(SeenText(pdf_content), route_indicators) = 1
    /\ Occurring(SeenText(pdf_content), time_indicators) = 3
    /\ pdf_type = "time_tracking"

(***************************************************************************)
(* Specification SpecShared: calls of _extract_visits_from_text on the one *)
(* PDFParser the web layer creates (src/app.py:215), interleaved line by   *)
(* line.  The locals of a call (lines, i, current_stop, current_address,   *)
(* current_notes, visits) are its own; the instance holds the two tables   *)
(* __init__ builds, the three address patterns being told apart by their   *)
(* tails.                                                                  *)
(***************************************************************************)
MaxCallLines == 2

Threads == {1, 2}

CallLines == {"1. 123 Main St", "2.", "Suite 5 at 9 Elm Rd"}

\* PDFParser.__init__
NewParser == [known_facilities |-> known_facilities, address_patterns |-> AddressTails]

\* the locals of a call before its first line
NewCall(text) ==
    [lines |-> SplitOn(text, "\n"), pos |-> 1, scan |-> ScanStart, returned |-> None]

SharedInit ==
    /\ pc = "shared"
    /\ instance = NewParser
    /\ calls \in [Threads -> {NewCall(PageText(ls)) : ls \in SeqsUpTo(CallLines, MaxCallLines)}]
    /\ CleanIdle /\ LinesIdle /\ StopIdle /\ NameIdle /\ TimeIdle /\ ParseIdle
    /\ CardIdle /\ ResolveIdle

\* the call after one iteration of its loop
Stepped(call) ==
    [call EXCEPT !.scan = ScanLine(call.scan, call.lines, call.pos, 1), !.pos = call.pos + 1]

\* variant: current_stop, current_address, current_notes and visits are kept
\* on the instance, so every call in progress sees what this one wrote
CallStep_on_instance(t) ==
    /\ pc = "shared"
    /\ calls[t].returned = None
    /\ calls[t].pos <= Len(calls[t].lines)
    /\ calls' = [u \in Threads |->
                    IF u = t THEN Stepped(calls[t])
                    ELSE IF calls[u].returned = None
                         THEN [calls[u] EXCEPT !.scan = Stepped(calls[t]).scan]
                         ELSE calls[u]]
    /\ UNCHANGED <<pc, instance, cleanVars, scanVars, nameVars, timeVars, parseVars,
                   cardVars, resolveVars>>

\* call t runs one iteration of "for i, line in enumerate(lines)"
CallStep(t) ==
    /\ pc = "shared"
    /\ calls[t].returned = None
    /\ calls[t].pos <= Len(calls[t].lines)
    /\ calls' = [calls EXCEPT ![t] = Stepped(calls[t])]
    /\ UNCHANGED <<pc, instance, cleanVars, scanVars, nameVars, timeVars, parseVars,
                   cardVars, resolveVars>>

\* variant: the parser records what it has returned among its known facilities
CallReturn_remembering(t) ==
    /\ pc = "shared"
    /\ calls[t].returned = None
    /\ calls[t].pos > Len(calls[t].lines)
    /\ calls' = [calls EXCEPT ![t].returned = Some(Finalize(calls[t].scan, 1))]
    /\ instance' = [instance EXCEPT !.known_facilities = Append(@, <<"seen", "Seen Before">>)]
    /\ UNCHANGED <<pc, cleanVars, scanVars, nameVars, timeVars, parseVars, cardVars, resolveVars>>

\* call t flushes its last stop and returns its visits
CallReturn(t) ==
    /\ pc = "shared"
    /\ calls[t].returned = None
    /\ calls[t].pos > Len(calls[t].lines)
    /\ calls' = [calls EXCEPT ![t].returned = Some(Finalize(calls[t].scan, 1))]
    /\ UNCHANGED <<pc, instance, cleanVars, scanVars, nameVars, timeVars, parseVars,
                   cardVars, resolveVars>>

SharedNext == \E t \in Threads : CallStep(t) \/ CallReturn(t)

SpecShared == SharedInit /\ [][SharedNext]_vars

C12_ReturnsAsWhenAlone ==
    \A t \in Threads :
        calls[t].returned # None =>
            Val(calls[t].returned) = extract_visits_from_text(Join(calls[t].lines, "\n"), 1)

\* call 2 has run to its end and returned stop 1 while call 1, on another
\* text, is between its stop line and the line that holds its address
C12_Witness ==
    /\ calls[1].lines = <<"2.", "Suite 5 at 9 Elm Rd">>
    /\ calls[1].pos = 2
    /\ calls[1].returned = None
    /\ calls[2].lines = <<"1. 123 Main St">>
    /\ calls[2].returned # None
    /\ Len(Val(calls[2].returned)) = 1
    /\ Val(calls[2].returned)[1].stop = 1

(***************************************************************************)
(* BusinessCardScanner (src/business_card_scanner.py)                      *)
(*                                                                         *)
(* email_pattern is \b[A-Za-z0-9._%+-]+@[A-Za-z0-9.-]+\.[A-Z|a-z]{2,}\b :  *)
(* the local part is the whole run of its characters before the "@", the   *)
(* domain gives characters back up to a dot, longest first, and the last   *)
(* class, which holds "|" besides the letters, gives characters back up to *)
(* a word boundary.                                                        *)
(***************************************************************************)
AlnumChars == UpperChars \cup LowerChars \cup DigitChars
EmailLocalChars == AlnumChars \cup {".", "_", "%", "+", "-"}
EmailDomainChars == AlnumChars \cup {".", "-"}
EmailTldChars == UpperChars \cup LowerChars \cup {"|"}

\* \b between s[i-1] and s[i]
WordBoundary(s, i) == IsWord(Ch(s, i - 1)) # IsWord(Ch(s, i))

\* [A-Z|a-z]{2,}\b after the dot at e: the last position of the match, 0 when it fails
TldEnd(s, e) ==
    MaxOr({t \in (e + 2)..RunEnd(s, e + 1, EmailTldChars) : WordBoundary(s, t + 1)}, 0)

\* the dots of the domain after which the pattern can be completed
DomainDots(s, a) ==
    {e \in (a + 2)..RunEnd(s, a + 1, EmailDomainChars) : Ch(s, e) = "." /\ TldEnd(s, e) # 0}

LastDotEnd(s, dots) == IF dots = {} THEN 0 ELSE TldEnd(s, Max(dots))

\* the pattern from position i: the last position of the match, 0 when it fails
EmailEndAt(s, i) ==
    IF /\ Ch(s, i) \in EmailLocalChars
       /\ WordBoundary(s, i)
       /\ Ch(s, RunEnd(s, i, EmailLocalChars) + 1) = "@"
    THEN LastDotEnd(s, DomainDots(s, RunEnd(s, i, EmailLocalChars) + 1))
    ELSE 0

EmailLeftmost(s, starts) ==
    IF starts = {} THEN None ELSE Some(SubSeq(s, Min(starts), EmailEndAt(s, Min(starts))))

\* re.search(self.email_pattern, s): match.group(), None without a match
EmailSearch(s) == EmailLeftmost(s, {i \in 1..Len(s) : EmailEndAt(s, i) # 0})

UpperCharOf(c) ==
    IF c \in LowerChars THEN Ch(UpperAlpha, CHOOSE n \in 1..26 : Ch(LowerAlpha, n) = c) ELSE c

RECURSIVE TitleFrom(_, _, _)
\* str.title(): a letter after a letter is lower-cased, any other letter upper-cased
TitleFrom(s, i, after_letter) ==
    IF i > Len(s) THEN ""
    ELSE (IF ~IsAlpha(Ch(s, i)) THEN Ch(s, i)
          ELSE IF after_letter THEN LowerChar(Ch(s, i))
          ELSE UpperCharOf(Ch(s, i)))
             \o TitleFrom(s, i + 1, IsAlpha(Ch(s, i)))

Title(s) == TitleFrom(s, 1, FALSE)

RECURSIVE ReplaceChar(_, _, _)
\* s.replace(c, d) for single characters
ReplaceChar(s, c, d) ==
    IF s = "" THEN ""
    ELSE (IF Head(s) = c THEN d ELSE Head(s)) \o ReplaceChar(Tail(s), c, d)

\* variant: the label is not title-cased
CompanyOfLabel_as_written(label) == ReplaceChar(ReplaceChar(label, "-", " "), "_", " ")

\* domain.replace('-', ' ').replace('_', ' ').title()
CompanyOfLabel(label) == Title(ReplaceChar(ReplaceChar(label, "-", " "), "_", " "))

\* "if len(email_parts) == 2": the company of the first label of the domain
CompanyOfParts(email_parts) ==
    IF Len(email_parts) = 2 THEN Some(CompanyOfLabel(SplitOn(email_parts[2], ".")[1])) ELSE None

\* str.isupper(): some letter, and no lower-case letter
IsUpperString(s) ==
    /\ \E i \in 1..Len(s) : IsUpper(Ch(s, i))
    /\ \A i \in 1..Len(s) : Ch(s, i) \notin LowerChars

HasDigit(s) == \E i \in 1..Len(s) : IsDigit(Ch(s, i))

business_words == <<"inc", "llc", "corp", "company", "hospital", "medical", "health", "center",
                    "clinic", "manager", "director", "coordinator">>

\* _looks_like_name(text)
looks_like_name(text) ==
    IF EmailSearch(text) # None THEN FALSE
    ELSE IF HasDigit(text) THEN FALSE
    ELSE IF Len(text) > 30 THEN FALSE
    ELSE IF IsUpperString(text) THEN FALSE
    ELSE IF \E n \in 1..Len(business_words) : Contains(Lower(text), business_words[n]) THEN FALSE
    ELSE IF Len(SplitWS(text)) < 2 THEN FALSE
    ELSE \A n \in 1..Len(SplitWS(text)) : IsUpper(At(SplitWS(text)[n], 1))

RECURSIVE StrippedLines(_, _)
\* [line.strip() for line in text.split('\n') if line.strip()]
StrippedLines(raw_lines, n) ==
    IF n > Len(raw_lines) THEN <<>>
    ELSE (IF Strip(raw_lines[n]) # "" THEN <<Strip(raw_lines[n])>> ELSE <<>>)
             \o StrippedLines(raw_lines, n + 1)

skipped_words == {"inc", "llc", "corp", "company", "hospital", "medical", "health", "center",
                  "clinic", "the", "and", "of", "for"}

\* the test of strategy 2 on one word
IsNameCandidate(word) ==
    IF EmailSearch(word) # None THEN FALSE
    ELSE IF HasDigit(word) THEN FALSE
    ELSE IF Lower(word) \in skipped_words THEN FALSE
    ELSE /\ IsUpper(At(word, 1))
         /\ Len(word) > 1
         /\ \A i \in 1..Len(word) : IsAlpha(Ch(word, i))

RECURSIVE NameCandidates(_, _)
NameCandidates(words, n) ==
    IF n > Len(words) THEN <<>>
    ELSE (IF IsNameCandidate(words[n]) THEN <<words[n]>> ELSE <<>>)
             \o NameCandidates(words, n + 1)

\* "if 2 <= len(name_candidates) <= 3"
CandidatesName(name_candidates) ==
    IF Len(name_candidates) >= 2 /\ Len(name_candidates) <= 3
    THEN Some(Join(name_candidates, " "))
    ELSE None

\* variant: the words of the whole text are tried before the lines
FirstNameLine_words_first(text, lines, n) ==
    IF CandidatesName(NameCandidates(SplitWS(text), 1)) # None
    THEN CandidatesName(NameCandidates(SplitWS(text), 1))
    ELSE IF \E k \in n..Len(lines) : k <= 3 /\ looks_like_name(lines[k])
    THEN Some(lines[Min({k \in n..Len(lines) : k <= 3 /\ looks_like_name(lines[k])})])
    ELSE None

RECURSIVE FirstNameLine(_, _, _)
\* strategy 1 on lines[n..last], then strategy 2 on the words of the text
FirstNameLine(text, lines, n) ==
    IF n > Len(lines) \/ n > 3 THEN CandidatesName(NameCandidates(SplitWS(text), 1))
    ELSE IF looks_like_name(lines[n]) THEN Some(lines[n])
    ELSE FirstNameLine(text, lines, n + 1)

NameOfLines(text, lines) == IF lines = <<>> THEN None ELSE FirstNameLine(text, lines, 1)

\* _extract_name(text)
extract_name(text) == NameOfLines(text, StrippedLines(SplitOn(text, "\n"), 1))

\* "if email_match:" the email and company fields
WithEmail(fields, email_match) ==
    IF email_match = None THEN fields
    ELSE [fields EXCEPT !.email = Some(Strip(Lower(Val(email_match)))),
                        !.company = CompanyOfParts(SplitOn(Strip(Lower(Val(email_match))), "@"))]

\* variant: the last name is the last token only
WithNameParts_last_token(fields, name, name_parts) ==
    IF Len(name_parts) >= 2
    THEN [fields EXCEPT !.name = Some(name),
                        !.first_name = Some(Strip(name_parts[1])),
                        !.last_name = Some(Strip(name_parts[Len(name_parts)]))]
    ELSE [fields EXCEPT !.name = Some(name), !.first_name = Some(Strip(name))]

\* "if len(name_parts) >= 2: ... else: ..."
WithNameParts(fields, name, name_parts) ==
    IF Len(name_parts) >= 2
    THEN [fields EXCEPT !.name = Some(name),
                        !.first_name = Some(Strip(name_parts[1])),
                        !.last_name = Some(Strip(Join(Tail(name_parts), " ")))]
    ELSE [fields EXCEPT !.name = Some(name), !.first_name = Some(Strip(name))]

\* "if name:"
WithName(fields, name) ==
    IF name = None THEN fields
    ELSE IF Val(name) = "" THEN fields
    ELSE WithNameParts(fields, Val(name), SplitWS(Val(name)))

\* the contact before the two steps
EmptyContact(text) ==
    [first_name |-> None, last_name |-> None, email |-> None, name |-> None, company |-> None,
     title |-> None, phone |-> None, website |-> None, address |-> None,
     notes |-> Some(Strip(text))]

\* _parse_contact_info(text)
parse_contact_info(text) ==
    WithName(WithEmail(EmptyContact(text), EmailSearch(text)), extract_name(text))

\* "if validated.get(field): validated[field] = f(validated[field])"
Cleaned(value, titled) ==
    IF value = None THEN value
    ELSE IF Val(value) = "" THEN value
    ELSE IF titled THEN Some(Title(Strip(Val(value))))
    ELSE Some(Strip(Val(value)))

\* "if not validated.get(field): validated[field] = None"
NoneIfEmpty(value) == IF value = None THEN None ELSE IF Val(value) = "" THEN None ELSE value

\* "validated['email'] = validated['email'].lower().strip()"
CleanedEmail(value) ==
    IF value = None THEN value
    ELSE IF Val(value) = "" THEN value
    ELSE Some(Strip(Lower(Val(value))))

\* validate_contact(contact)
validate_contact(fields) ==
    [fields EXCEPT !.email = CleanedEmail(fields.email),
                   !.first_name = Cleaned(fields.first_name, TRUE),
                   !.last_name = Cleaned(fields.last_name, TRUE),
                   !.name = Cleaned(fields.name, TRUE),
                   !.company = Cleaned(fields.company, FALSE),
                   !.title = NoneIfEmpty(fields.title),
                   !.phone = NoneIfEmpty(fields.phone),
                   !.website = NoneIfEmpty(fields.website),
                   !.address = NoneIfEmpty(fields.address)]

(***************************************************************************)
(* Specification SpecCard: _parse_contact_info on the text of a card, then *)
(* validate_contact on the contact, with the phone and website a caller    *)
(* may have filled in                                                      *)
(***************************************************************************)
MaxCardLines == 3

CardLines == {"John Smith", "Acme Health", "john.smith@acmehealth.com", "Mary Ann  Lee", "Lee",
              "Ann", "Info@Acme-Health.org", "Ann\nLee", "Jo McAdam"}

Phones == {None, Some(""), Some("7195551234"), Some("17195551234"), Some("(719) 555-1234")}

Websites == {None, Some("acmehealth.com"), Some("https://acmehealth.com")}

CardInit ==
    /\ pc = "card"
    /\ \E ls \in SeqsUpTo(CardLines, MaxCardLines) : card_text = Join(ls, "\n")
    /\ contact = <<>>
    /\ validated = <<>>
    /\ CleanIdle /\ LinesIdle /\ StopIdle /\ NameIdle /\ TimeIdle /\ ParseIdle /\ SharedIdle
    /\ ResolveIdle

\* contact = self._parse_contact_info(text)
ParseContactInfo ==
    /\ pc = "card"
    /\ contact' = parse_contact_info(card_text)
    /\ pc' = "parsed"
    /\ UNCHANGED <<card_text, validated, cleanVars, scanVars, nameVars, timeVars, parseVars,
                   sharedVars, resolveVars>>

\* variant: the fields are cleaned in the dictionary the caller handed over
ValidateContact_in_place ==
    /\ pc = "parsed"
    /\ \E phone \in Phones, website \in Websites :
           /\ contact' = validate_contact([contact EXCEPT !.phone = phone, !.website = website])
           /\ validated' = validate_contact([contact EXCEPT !.phone = phone, !.website = website])
    /\ pc' = "validated"
    /\ UNCHANGED <<card_text, cleanVars, scanVars, nameVars, timeVars, parseVars,
                   sharedVars, resolveVars>>

\* validate_contact is handed the contact, its phone and website as given
ValidateContact ==
    /\ pc = "parsed"
    /\ \E phone \in Phones, website \in Websites :
           /\ contact' = [contact EXCEPT !.phone = phone, !.website = website]
           /\ validated' = validate_contact([contact EXCEPT !.phone = phone, !.website = website])
    /\ pc' = "validated"
    /\ UNCHANGED <<card_text, cleanVars, scanVars, nameVars, timeVars, parseVars,
                   sharedVars, resolveVars>>

CardNext == ParseContactInfo \/ ValidateContact

SpecCard == CardInit /\ [][CardNext]_vars

\* the first label of the domain of an email: the text between the "@" at
\* position at and the first dot after it
FirstLabel(email, at) == SubSeq(email, at + 1, NextIn(email, at + 1, {"."}) - 1)

C13_EmailAndCompany(email_match) ==
    IF email_match = None THEN contact.email = None /\ contact.company = None
    ELSE /\ contact.email = Some(Lower(Val(email_match)))
         /\ contact.company =
                Some(Title(ReplaceChar(ReplaceChar(
                    FirstLabel(Lower(Val(email_match)), NextIn(Val(email_match), 1, {"@"})),
                    "-", " "), "_", " ")))

\* C13: the email is the lower-cased first email match and the company is
\* set exactly when an email was found, to the title-cased first label of
\* the email's domain with "-" and "_" replaced by spaces; without an email
\* both are null.  "John Smith / Acme Health / john.smith@acmehealth.com"
\* gives john.smith@acmehealth.com and "Acmehealth".
C13_CompanyFromEmailDomain ==
    pc = "parsed" =>
        /\ C13_EmailAndCompany(EmailSearch(card_text))
        /\ card_text = "John Smith\nAcme Health\njohn.smith@acmehealth.com" =>
               /\ contact.email = Some("john.smith@acmehealth.com")
               /\ contact.company = Some("Acmehealth")

\* an upper-case letter in the address and a hyphen in the domain
C13_Witness ==
    /\ pc = "parsed"
    /\ card_text = "John Smith\nInfo@Acme-Health.org"
    /\ contact.email = Some("info@acme-health.org")
    /\ contact.company = Some("Acme Health")

C14_NameParts(tokens) ==
    /\ contact.first_name = Some(tokens[1])
    /\ Len(tokens) >= 2 => contact.last_name = Some(Join(Tail(tokens), " "))
    /\ Len(tokens) = 1 => (contact.first_name = contact.name /\ contact.last_name = None)

\* C14: when a name is found, first_name is its first whitespace-separated
\* token and last_name the remaining tokens joined by single spaces if there
\* are at least 2 tokens; with one token the whole name is first_name and
\* last_name is null; when no name is found name, first_name and last_name
\* are null.
C14_FirstAndLastName ==
    pc = "parsed" =>
        IF contact.name = None
        THEN extract_name(card_text) = None /\ contact.first_name = None /\ contact.last_name = None
        ELSE contact.name = extract_name(card_text) /\ C14_NameParts(SplitWS(Val(contact.name)))

\* a name of three tokens, two of them separated by two spaces
C14_Witness ==
    /\ pc = "parsed"
    /\ contact.name = Some("Mary Ann  Lee")
    /\ contact.first_name = Some("Mary")
    /\ contact.last_name = Some("Ann Lee")

\* digits of a phone number
DigitsOf(s) == SelectSeq([n \in 1..Len(s) |-> Ch(s, n)], IsDigit)

\* C15 as claimed: validate_contact renders a phone of 10 digits, or of 11
\* digits with a leading "1", as (XXX) XXX-XXXX and puts https:// before a
\* website that has no scheme.
C15_PhoneAndWebsiteFormatted ==
    pc = "validated" =>
        /\ (/\ contact.phone # None
            /\ \/ Len(DigitsOf(Val(contact.phone))) = 10
               \/ Len(DigitsOf(Val(contact.phone))) = 11 /\ Head(DigitsOf(Val(contact.phone))) = "1")
               => /\ validated.phone # None
                  /\ Len(Val(validated.phone)) = 14
                  /\ Ch(Val(validated.phone), 1) = "("
                  /\ SubSeq(Val(validated.phone), 5, 6) = ") "
                  /\ Ch(Val(validated.phone), 10) = "-"
        /\ contact.website # None
               => /\ validated.website # None
                  /\ \/ MatchAt(Val(validated.website), 1, "https://")
                     \/ MatchAt(Val(validated.website), 1, "http://")

(***************************************************************************)
(* get_best_business_name and its helpers (src/app.py:34-175; the copy in  *)
(* src/enhanced_visit_import.py:101-158 reads the same)                    *)
(*                                                                         *)
(* The patterns are [A-Za-z\s&]+(?:k1|k2|...) searched with re.IGNORECASE, *)
(* for an address after \d+\s+ : the run gives characters back, longest    *)
(* first, until one of the keywords, tried in their order, follows it.     *)
(* A pattern is written as its keywords in lower case.                     *)
(***************************************************************************)
notes_name_patterns ==
    <<<<"hospital", "medical", "health", "care", "center", "clinic", "group", "services", "healthcare">>,
     <<"post", "legion", "vfw", "american legion">>,
     <<"senior", "living", "assisted", "nursing">>,
     <<"hospice", "palliative">>,
     <<"orthopaedic", "orthopedic", "surgical">>,
     <<"rehabilitation", "rehab">>,
     <<"community", "health centers">>,
     <<"memorial", "st. francis", "penrose">>,
     <<"va", "veterans", "outpatient">>,
     <<"pace", "innovage">>,
     <<"home health", "home care">>,
     <<"therapy", "therapeutic">>,
     <<"behavioral", "mental health">>,
     <<"cancer", "oncology">>,
     <<"women's", "obstetrics">>,
     <<"emergency", "er">>,
     <<"administrative", "admin">>,
     <<"foundation", "fund">>,
     <<"resort", "residential">>,
     <<"plaza", "medical plaza">>,
     <<"pavilion", "tower">>,
     <<"building", "complex">>>>

\* the patterns for an address: the same, and one more
address_name_patterns == Append(notes_name_patterns, <<"suite", "ste", "unit">>)

NameRunChars == UpperChars \cup LowerChars \cup SpaceChars \cup {"&"}

\* (?:k1|k2|...) right after position e: the last position of the first
\* keyword that matches, 0 when none does
KeywordEndAfter(ls, e, keywords) ==
    FirstHit([n \in 1..Len(keywords) |->
                 IF MatchAt(ls, e + 1, keywords[n]) THEN e + Len(keywords[n]) ELSE 0])

\* the run ends at the last of these positions after which a keyword follows
LongestRunEnd(ls, ends, keywords) ==
    IF ends = {} THEN 0 ELSE KeywordEndAfter(ls, Max(ends), keywords)

\* [A-Za-z\s&]+(?:...) with the run starting at p, or anywhere in first..p
\* when white space before p may be given to the run
RunKeywordEnd(ls, first, keywords) ==
    LongestRunEnd(ls, {e \in first..RunEnd(ls, first, NameRunChars) :
                          KeywordEndAfter(ls, e, keywords) # 0}, keywords)

\* a pattern of the notes at i
NotesPatternEndAt(ls, i, keywords) ==
    IF Ch(ls, i) \in NameRunChars THEN RunKeywordEnd(ls, i, keywords) ELSE 0

\* \d+\s+ at i: the position where the run may end first, 0 when it fails;
\* the run holds at least one character after at least one white space
AfterNumber(ls, i) ==
    IF IsDigit(Ch(ls, i)) /\ IsSpace(Ch(ls, RunEnd(ls, i, DigitChars) + 1))
    THEN RunEnd(ls, i, DigitChars) + 2
    ELSE 0

\* a pattern of the address at i
AddressPatternEndAt(ls, i, keywords) ==
    IF AfterNumber(ls, i) = 0 THEN 0
    ELSE IF Ch(ls, AfterNumber(ls, i)) \notin NameRunChars THEN 0
    ELSE RunKeywordEnd(ls, AfterNumber(ls, i), keywords)

PatternEndAt(ls, i, keywords, numbered) ==
    IF numbered THEN AddressPatternEndAt(ls, i, keywords) ELSE NotesPatternEndAt(ls, i, keywords)

\* match.group(1).strip() with white space collapsed, of the leftmost match
NameGroup(text, ls, keywords, numbered, starts) ==
    IF starts = {} THEN None
    ELSE Some(CollapseSpaces(Strip(
             SubSeq(text, Min(starts), PatternEndAt(ls, Min(starts), keywords, numbered)))))

NamePatternSearch(text, ls, keywords, numbered) ==
    NameGroup(text, ls, keywords, numbered,
              {i \in 1..Len(ls) : PatternEndAt(ls, i, keywords, numbered) # 0})

RECURSIVE FirstNamePattern(_, _, _, _, _)
\* "for pattern in patterns: match = re.search(...); if match: return ..."
FirstNamePattern(text, ls, patterns, n, numbered) ==
    IF n > Len(patterns) THEN None
    ELSE IF NamePatternSearch(text, ls, patterns[n], numbered) # None
    THEN NamePatternSearch(text, ls, patterns[n], numbered)
    ELSE FirstNamePattern(text, ls, patterns, n + 1, numbered)

street_suffixes == <<"st", "ave", "blvd", "dr", "rd", "cir", "pkwy", "way">>

\* the suffix of s that begins with its last white space, "" without one
LastWord(s, spaces) == IF spaces = {} THEN "" ELSE SubSeq(s, Max(spaces), Len(s))

\* re.sub(r'\s+(St|Ave|Blvd|Dr|Rd|Cir|Pkwy|Way)\s*$', '', name, flags=re.IGNORECASE)
\* on a name whose white space is single and inner
WithoutSuffix(name, last_word) ==
    IF \E n \in 1..Len(street_suffixes) :
           Lower(SubSeq(last_word, 2, Len(last_word))) = street_suffixes[n]
    THEN SubSeq(name, 1, Len(name) - Len(last_word))
    ELSE name

StripStreetSuffix(name) ==
    IF name = None THEN None
    ELSE Some(WithoutSuffix(Val(name),
                            LastWord(Val(name), {i \in 1..Len(Val(name)) : IsSpace(Ch(Val(name), i))})))

\* "if not x": None or the empty string
Missing(value) == IF value = None THEN TRUE ELSE Val(value) = ""

\* extract_business_name_from_address(address) of app.py
name_from_address(address) ==
    IF Missing(address) THEN None
    ELSE StripStreetSuffix(FirstNamePattern(Val(address), Lower(Val(address)),
                                            address_name_patterns, 1, TRUE))

\* extract_business_name_from_notes(notes)
name_from_notes(notes) ==
    IF Missing(notes) THEN None
    ELSE FirstNamePattern(Val(notes), Lower(Val(notes)), notes_name_patterns, 1, FALSE)

street_buckets ==
    <<<<{"main", "primary", "central"}, "Healthcare Center">>,
     <<{"union", "academy", "nevada"}, "Medical Center">>,
     <<{"boulder", "platte", "tejon"}, "Healthcare Facility">>,
     <<{"tenderfoot", "lake", "plaza"}, "Care Center">>,
     <<{"international", "research", "briargate"}, "Medical Facility">>,
     <<{"woodmen", "championship", "cordera"}, "Healthcare Services">>,
     <<{"austin", "jeannine", "murray"}, "Health Center">>,
     <<{"lehman", "goddard", "pulpit"}, "Medical Services">>,
     <<{"pinon", "elkton", "centennial"}, "Healthcare Group">>,
     <<{"bloomington", "monica", "southgate"}, "Care Services">>,
     <<{"circle", "hancock", "parkside"}, "Medical Group">>,
     <<{"van buren", "eighth", "southmoor"}, "Healthcare Center">>>>

RECURSIVE BucketName(_, _, _)
\* "if any(word in street_name.lower() for word in [...]) ... elif ... else"
BucketName(street_name, lowered, n) ==
    IF n > Len(street_buckets) THEN street_name \o " Healthcare Facility"
    ELSE IF \E word \in street_buckets[n][1] : Contains(lowered, word)
    THEN street_name \o " " \o street_buckets[n][2]
    ELSE BucketName(street_name, lowered, n + 1)

\* ([A-Za-z\s&]+) after \d+\s+ at i: <<first, last>> of the group, <<>> when
\* the pattern fails at i; a white space is given to the group when no
\* letter follows the white space
StreetGroupAt(s, i) ==
    IF AfterNumber(s, i) = 0 THEN <<>>
    ELSE IF Ch(s, RunEnd(s, AfterNumber(s, i) - 1, SpaceChars) + 1) \in NameRunChars
    THEN <<RunEnd(s, AfterNumber(s, i) - 1, SpaceChars) + 1,
           RunEnd(s, AfterNumber(s, i) - 1, NameRunChars)>>
    ELSE IF RunEnd(s, AfterNumber(s, i) - 1, SpaceChars) >= AfterNumber(s, i)
    THEN <<RunEnd(s, AfterNumber(s, i) - 1, SpaceChars),
           RunEnd(s, AfterNumber(s, i) - 1, SpaceChars)>>
    ELSE <<>>

StreetOf(s, starts) ==
    IF starts = {} THEN None
    ELSE Some(Strip(SubSeq(s, StreetGroupAt(s, Min(starts))[1], StreetGroupAt(s, Min(starts))[2])))

\* re.search(r'\d+\s+([A-Za-z\s&]+)', address): group(1).strip()
StreetSearch(s) == StreetOf(s, {i \in 1..Len(s) : StreetGroupAt(s, i) # <<>>})

StreetNameOr(street_name) ==
    IF street_name = None THEN "Unknown Healthcare Facility"
    ELSE BucketName(Val(street_name), Lower(Val(street_name)), 1)

\* infer_business_name_from_context(stop_number, address, city, notes)
infer_business_name_from_context(address) ==
    IF Missing(address) THEN "Unknown Facility" ELSE StreetNameOr(StreetSearch(Val(address)))

\* "if business_name and business_name.strip() and business_name != 'Unknown Facility'"
Usable(business_name) ==
    IF Missing(business_name) THEN FALSE
    ELSE IF Strip(Val(business_name)) = "" THEN FALSE
    ELSE Val(business_name) # "Unknown Facility"

FromNotesOrContext(address, from_notes) ==
    IF ~Missing(from_notes) THEN Val(from_notes) ELSE infer_business_name_from_context(address)

FromAddressOrLater(address, notes, from_address) ==
    IF ~Missing(from_address) THEN Val(from_address)
    ELSE FromNotesOrContext(address, name_from_notes(notes))

\* get_best_business_name(business_name, address, city, notes)
get_best_business_name(business_name, address, notes) ==
    IF Usable(business_name) THEN Strip(Val(business_name))
    ELSE FromAddressOrLater(address, notes, name_from_address(address))

(***************************************************************************)
(* Specification SpecResolve: get_best_business_name and                   *)
(* infer_business_name_from_context on the fields of a stored visit        *)
(***************************************************************************)
StoredNames == {None, Some(""), Some("Unknown Facility"), Some(" Acme Clinic "),
                Some(" Unknown Facility ")}

StoredAddresses == {None, Some(""), Some("Suite B"), Some("12 Oak St"), Some("6001 E Woodmen Rd"),
                    Some("1400  Memorial Hospital Dr"), Some("12  #4")}

StoredNotes == {None, Some("gate code"), Some("Penrose Hospital annex")}

ResolveInit ==
    /\ pc = "resolve"
    /\ resolve_args \in [business_name : StoredNames, address : StoredAddresses, notes : StoredNotes]
    /\ resolved = ""
    /\ CleanIdle /\ LinesIdle /\ StopIdle /\ NameIdle /\ TimeIdle /\ ParseIdle /\ SharedIdle
    /\ CardIdle

GetBestBusinessName ==
    /\ pc = "resolve"
    /\ resolved' = get_best_business_name(resolve_args.business_name, resolve_args.address,
                                          resolve_args.notes)
    /\ pc' = "best"
    /\ UNCHANGED <<resolve_args, cleanVars, scanVars, nameVars, timeVars, parseVars, sharedVars,
                   cardVars>>

InferFromContext ==
    /\ pc = "resolve"
    /\ resolved' = infer_business_name_from_context(resolve_args.address)
    /\ pc' = "context"
    /\ UNCHANGED <<resolve_args, cleanVars, scanVars, nameVars, timeVars, parseVars, sharedVars,
                   cardVars>>

ResolveNext == GetBestBusinessName \/ InferFromContext

SpecResolve == ResolveInit /\ [][ResolveNext]_vars

\* the call has come down to the inference from context
CameToContext ==
    IF pc = "context" THEN TRUE
    ELSE /\ pc = "best"
         /\ ~Usable(resolve_args.business_name)
         /\ Missing(name_from_address(resolve_args.address))
         /\ Missing(name_from_notes(resolve_args.notes))

NoBucket(street_name) ==
    \A n \in 1..Len(street_buckets) : \A word \in street_buckets[n][1] :
        ~Contains(Lower(street_name), word)

C16_StreetFallback(street_name) ==
    (street_name # None /\ NoBucket(Val(street_name)))
        => resolved = Val(street_name) \o " Healthcare Facility"

\* C16 as claimed: with no address at all (and no usable existing name or
\* name from the notes) the permissive resolver returns "Unknown Healthcare
\* Facility"; with an address whose street is in no keyword bucket it
\* returns "<street> Healthcare Facility".
C16_UnknownHealthcareFacility ==
    CameToContext =>
        IF Missing(resolve_args.address) THEN resolved = "Unknown Healthcare Facility"
        ELSE C16_StreetFallback(StreetSearch(Val(resolve_args.address)))

(***************************************************************************)
(* Further properties of the page scan (SpecScan)                          *)
(***************************************************************************)
\* the keys append_to_sheet reads from each visit it is handed (src/app.py:445-450)
fields_read_on_save == {"stop_number", "business_name", "address", "city", "notes"}

\* C17 as claimed: every visit the route parser emits has exactly the
\* fields stop_number (an integer), business_name, location, city and notes
\* (strings), and these are the fields the persistence step reads.
C17_VisitFields ==
    pc = "scanned" =>
        \A n \in 1..Len(page_visits) :
            /\ DOMAIN page_visits[n] = {"stop_number", "business_name", "location", "city", "notes"}
            /\ fields_read_on_save \subseteq DOMAIN page_visits[n]
            /\ page_visits[n].stop_number \in Nat

\* the stop-number line of the stop that is active when line idx is read
ActiveStopLine == MaxOr({k \in StopLines : k < idx}, 0)

\* an address stands behind the number of stop line k or on one of the next
\* 2 lines, the lines the look-ahead of the stop line reads
AddressInReach(k) ==
    \/ extract_address(Strip(SubSeq(Strip(text_lines[k]), StopMatchEnd(Strip(text_lines[k])) + 1,
                                    Len(Strip(text_lines[k]))))) # None
    \/ \E j \in (k + 1)..(k + 2) : j <= Len(text_lines) /\ extract_address(text_lines[j]) # None

\* an address stands on one of the lines of the active stop read so far
AddressOnLaterLine ==
    \E j \in (ActiveStopLine + 1)..(idx - 1) : extract_address(Strip(text_lines[j])) # None

\* C18 as claimed: when neither the rest of the stop line nor one of the next
\* 2 lines holds an address, the stop stays without address whatever lines
\* follow before the next stop-number line.
C18_GivesUpAfterLookAhead ==
    (pc = "scan" /\ ActiveStopLine > 0 /\ ~AddressInReach(ActiveStopLine)) => NoAddress(Scan)

\* C18, amended: when neither the rest of the stop line nor one of the next
\* 2 lines holds an address, every later line before the next stop-number
\* line is searched while the stop has no address; the stop stays without
\* address, and yields no visit, exactly when none of them holds one.
C18_KeepsLookingUntilNextStop ==
    /\ (pc = "scan" /\ ActiveStopLine > 0 /\ ~AddressInReach(ActiveStopLine))
           => (NoAddress(Scan) <=> ~AddressOnLaterLine)
    /\ (pc = "scanned" /\ StopLines = {1} /\ ~AddressInReach(1))
           => (page_visits = <<>> <=>
                   \A j \in 2..Len(text_lines) : extract_address(Strip(text_lines[j])) = None)

\* the address of stop 2 is found on the third line after its stop line
C18_Witness ==
    /\ pc = "scan" /\ idx = 5
    /\ text_lines = <<"2.", "Gate code", "Gate code", "Suite 5 at 9 Elm Rd">>
    /\ current_stop = Some(2)
    /\ current_address = Some("9 Elm Rd")

\* the line on which the address of the stop of line k is found: k itself,
\* else the first later line holding one (Len(text_lines) + 1 if none does)
AddressLineOf(k) ==
    IF extract_address(Strip(SubSeq(Strip(text_lines[k]), StopMatchEnd(Strip(text_lines[k])) + 1,
                                    Len(Strip(text_lines[k]))))) # None
    THEN k
    ELSE MinOr({j \in (k + 1)..Len(text_lines) :
                   /\ j <= k + 2 \/ j < NextStopLine(k)
                   /\ extract_address(Strip(text_lines[j])) # None},
               Len(text_lines) + 1)

RECURSIVE NoteLines(_, _)
\* the non-empty lines from..to that do not start with a header word
NoteLines(from, to) ==
    IF from > to THEN <<>>
    ELSE (IF Strip(text_lines[from]) # "" /\ ~IsHeaderLine(Strip(text_lines[from]))
          THEN <<Strip(text_lines[from])>> ELSE <<>>) \o NoteLines(from + 1, to)

\* C19 as claimed: the notes of a stop whose address has been found are the
\* non-empty lines without header word that follow the line on which the
\* address was found, in order, up to the next stop-number line or the page
\* end, joined by single spaces in the visit; no line read while the address
\* was still missing is among them.
C19_NotesFollowTheAddress ==
    /\ (pc = "scan" /\ ActiveStopLine > 0 /\ ~NoAddress(Scan))
           => current_notes = NoteLines(AddressLineOf(ActiveStopLine) + 1, idx - 1)
    /\ (pc = "scanned" /\ ActiveStopLine > 0 /\ ~NoAddress(Scan))
           => page_visits[Len(page_visits)].notes =
                  Join(NoteLines(AddressLineOf(ActiveStopLine) + 1, Len(text_lines)), " ")

(***************************************************************************)
(* Specification SpecRoute: the page loop of parse_myway_route_pdf         *)
(* (src/parser.py:169-199), one step per page                              *)
(***************************************************************************)
MaxRoutePages == 3

NotedStopPage == [raises |-> FALSE, text |-> Some("1. 123 Main St\nGate code")]
OpenStopPage == [raises |-> FALSE, text |-> Some("2.")]
LeadingLinesPage == [raises |-> FALSE, text |-> Some("Suite 5 at 9 Elm Rd\nBack door")]
LateStopPage == [raises |-> FALSE, text |-> Some("Back door\n3. 456 Oak Ave")]

RoutePages == {NotedStopPage, OpenStopPage, LeadingLinesPage, LateStopPage, BlankPage, BrokenPage}

RouteDocuments ==
    {[opens |-> FALSE, pages |-> <<>>]}
        \cup {[opens |-> TRUE, pages |-> ps] : ps \in SeqsUpTo(RoutePages, MaxRoutePages)}

RouteInit ==
    /\ pc = "route"
    /\ pdf_content \in RouteDocuments
    /\ pdf_type = ""
    /\ result = <<>>
    /\ page_no = 1
    /\ upload = <<>> /\ response = <<>>
    /\ visits = <<>> /\ cleaned = <<>>
    /\ LinesIdle /\ StopIdle /\ NameIdle /\ TimeIdle /\ SharedIdle /\ CardIdle /\ ResolveIdle

\* the loop has a page to read
AtPage == pc = "route" /\ pdf_content.opens /\ page_no <= Len(pdf_content.pages)

\* pdfplumber.open raises: the except branch answers
RouteOpenFails ==
    /\ pc = "route"
    /\ ~pdf_content.opens
    /\ result' = Failure("myway_route", pdf_content)
    /\ pc' = "returned"
    /\ UNCHANGED <<pdf_content, page_no, upload, response, pdf_type, cleanVars, scanVars, nameVars, timeVars,
                   sharedVars, cardVars, resolveVars>>

\* page.extract_text() raises: the except branch answers
RoutePageRaises ==
    /\ AtPage
    /\ pdf_content.pages[page_no].raises
    /\ result' = Failure("myway_route", pdf_content)
    /\ pc' = "returned"
    /\ UNCHANGED <<pdf_content, page_no, upload, response, pdf_type, cleanVars, scanVars, nameVars, timeVars,
                   sharedVars, cardVars, resolveVars>>

\* variant: the scan goes on over the page boundary with the state it has
ReadPage_carrying ==
    /\ AtPage
    /\ ~pdf_content.pages[page_no].raises
    /\ visits' = extract_visits_from_text(TimeText(SubSeq(pdf_content.pages, 1, page_no), 1), 1)
    /\ page_no' = page_no + 1
    /\ UNCHANGED <<pc, pdf_content, pdf_type, result, upload, response, cleaned, scanVars, nameVars, timeVars,
                   sharedVars, cardVars, resolveVars>>

\* one iteration of "for page_num, page in enumerate(pdf.pages)"
ReadPage ==
    /\ AtPage
    /\ ~pdf_content.pages[page_no].raises
    /\ visits' = visits \o (IF Truthy(pdf_content.pages[page_no].text)
                            THEN extract_visits_from_text(Val(pdf_content.pages[page_no].text), page_no)
                            ELSE <<>>)
    /\ page_no' = page_no + 1
    /\ UNCHANGED <<pc, pdf_content, pdf_type, result, upload, response, cleaned, scanVars, nameVars, timeVars,
                   sharedVars, cardVars, resolveVars>>

\* after the last page: clean the visits and return the dictionary
RouteReturn ==
    /\ pc = "route"
    /\ pdf_content.opens
    /\ page_no > Len(pdf_content.pages)
    /\ cleaned' = clean_visits(visits)
    /\ result' = RouteResult(clean_visits(visits))
    /\ pc' = "returned"
    /\ UNCHANGED <<pdf_content, page_no, upload, response, pdf_type, visits, scanVars, nameVars, timeVars,
                   sharedVars, cardVars, resolveVars>>

RouteNext ==
    \/ RouteOpenFails
    \/ RoutePageRaises
    \/ ReadPage
    \/ RouteReturn

SpecRoute == RouteInit /\ [][RouteNext]_vars

RECURSIVE FromFirstStop(_)
\* the lines of a page from its first stop-number line on
FromFirstStop(lines) ==
    IF lines = <<>> THEN <<>>
    ELSE IF StopMatchEnd(Strip(lines[1])) > 0 THEN lines
    ELSE FromFirstStop(Tail(lines))

\* the visits a page gives when nothing but its own lines from the first
\* stop-number line on is read, starting with no active stop
OwnVisits(page) ==
    IF Truthy(page.text)
    THEN ScanFrom(ScanStart, FromFirstStop(SplitOn(Val(page.text), "\n")), 1, 1)
    ELSE <<>>

\* a page has been read
PageRead == pc = "route" /\ page_no' = page_no + 1

\* C20: the route state machine restarts on every page.  Reading page p+1
\* leaves every visit flushed for the pages up to p as it is, a stop of page
\* p without address gets none from page p+1, and what page p+1 adds is what
\* its own lines from its first stop-number line on give, so the lines before
\* that line contribute to no visit.
C20_Step ==
    PageRead =>
        /\ Len(visits') >= Len(visits)
        /\ SubSeq(visits', 1, Len(visits)) = visits
        /\ SubSeq(visits', Len(visits) + 1, Len(visits')) = OwnVisits(pdf_content.pages[page_no])

C20_RestartsOnEveryPage == [][C20_Step]_vars

\* page 1 ends with stop 2 still without address, page 2 starts with a line
\* holding an address and a note line: no visit comes of them
C20_Witness ==
    /\ pc = "route"
    /\ page_no = 3
    /\ SubSeq(pdf_content.pages, 1, 2) = <<OpenStopPage, LeadingLinesPage>>
    /\ visits = <<>>

(***************************************************************************)
(* Further properties of _infer_business_name (SpecName)                   *)
(***************************************************************************)
\* the capitalized-word run of the part of the address before its first comma
RunOfAddress(address) == CapitalizedRun(SplitWS(SplitOn(address, ",")[1]), 1, <<>>)

\* the tier that decides the name of an address and its notes
DecidingTier(address, notes) ==
    IF EntriesIn(TextToSearch(address, notes)) # {} THEN "keyword"
    ELSE IF HealthcareName(address, 1) # None THEN "pattern"
    ELSE IF Len(Join(RunOfAddress(address), " ")) > 3 THEN "run"
    ELSE IF NotesName(notes, 1) # None THEN "notes"
    ELSE "default"

\* C21: the strict resolver applies its tiers in fixed order and returns the
\* first success: the first dictionary entry whose keyword occurs in the
\* lower-cased address-plus-notes text; only without one the name of an
\* address healthcare pattern; only then the capitalized-word run of the
\* address; only then the notes fallback; and only then the default.
C21_TiersInOrder ==
    pc = "inferred" =>
        inferred_name =
            CASE DecidingTier(given_address, given_notes) = "keyword" ->
                     known_facilities[Min(EntriesIn(TextToSearch(given_address, given_notes)))][2]
              [] DecidingTier(given_address, given_notes) = "pattern" ->
                     Val(HealthcareName(given_address, 1))
              [] DecidingTier(given_address, given_notes) = "run" ->
                     Join(RunOfAddress(given_address), " ")
              [] DecidingTier(given_address, given_notes) = "notes" ->
                     Val(NotesName(given_notes, 1))
              [] OTHER -> "Healthcare Facility"

\* no keyword occurs; the address has a category word, a capitalized run and
\* a usable note, and the category pattern decides
C21_Witness ==
    /\ pc = "inferred"
    /\ given_address = "55 Penrose Clinic Way"
    /\ given_notes = <<"Ask at Front Desk medical wing">>
    /\ DecidingTier(given_address, given_notes) = "pattern"
    /\ Len(Join(RunOfAddress(given_address), " ")) > 3
    /\ NotesName(given_notes, 1) # None
    /\ inferred_name = "55 Penrose"

\* the words of the part of the address before its first comma
StreetPart(address) == SplitWS(SplitOn(address, ",")[1])

\* a word that may stand in the run: capitalized, at least 3 characters, no
\* street-type token
Qualifies(word) ==
    /\ Len(word) >= 3
    /\ IsUpper(Ch(word, 1))
    /\ Lower(word) \notin {"st", "street", "ave", "avenue", "blvd", "boulevard", "rd", "road",
                           "dr", "drive", "ln", "lane", "ct", "court", "pl", "place", "way"}

\* position of the first qualifying word, and of the first non-qualifying
\* word behind it
RunStart(words) == MinOr({k \in 1..Len(words) : Qualifies(words[k])}, Len(words) + 1)
RunStop(words) ==
    MinOr({k \in RunStart(words)..Len(words) : ~Qualifies(words[k])}, Len(words) + 1)

\* the first run of consecutive qualifying words, joined
FirstRun(address) ==
    Join(SubSeq(StreetPart(address), RunStart(StreetPart(address)),
                RunStop(StreetPart(address)) - 1), " ")

\* no healthcare-category pattern matches the address
NoCategoryMatch(address) ==
    \A n \in 1..Len(healthcare_patterns) :
        HealthcareSearch(address, healthcare_patterns_lower[n]) = None

\* C22: without a known-facility keyword in address and notes and without a
\* healthcare-category match in the address, the resolver returns the first
\* run of consecutive capitalized words (at least 3 characters each, no
\* street-type token) of the address part before the first comma, ended at
\* the first non-qualifying word, provided the joined run is longer than 3
\* characters; "4900 S Monaco St" resolves to "Monaco" and "3105 W Arkansas
\* Ave" to "Arkansas" with their ETA notes.
C22_CapitalizedRun ==
    pc = "inferred" =>
        /\ (/\ EntriesIn(TextToSearch(given_address, given_notes)) = {}
            /\ NoCategoryMatch(given_address)
            /\ Len(FirstRun(given_address)) > 3)
               => inferred_name = FirstRun(given_address)
        /\ (given_address = "4900 S Monaco St" /\ given_notes = <<"ETA 11:19 AM 12m 4.46 mi.">>)
               => inferred_name = "Monaco"
        /\ (given_address = "3105 W Arkansas Ave" /\ given_notes = <<"ETA 12:15 PM 24m 11.05 mi.">>)
               => inferred_name = "Arkansas"

\* the run "Cedar Run" ends at "at": neither "Pine" nor "Unit" behind the
\* comma is part of the name
C22_Witness ==
    /\ pc = "inferred"
    /\ given_address = "8 Cedar Run at Pine, Unit 4"
    /\ given_notes = <<"ETA 12:15 PM 24m 11.05 mi.">>
    /\ EntriesIn(TextToSearch(given_address, given_notes)) = {}
    /\ NoCategoryMatch(given_address)
    /\ inferred_name = "Cedar Run"

(***************************************************************************)
(* Further properties of _extract_time_data (SpecTime)                     *)
(***************************************************************************)
\* the line the loop reads, stripped and in lower case
LineRead == Lower(Strip(text_lines[idx]))

\* the hours patterns that match the line the loop reads:
\* 1 'total: N hours', 2 'hours: N', 3 'total: N', 4 bare 'N hours'
MatchingHoursPatterns == {p \in 1..NumHoursPatterns : HoursSearch(LineRead, p) # <<>>}

\* a line is read while no hours value has been accepted
ReadsForHours == pc = "time" /\ idx <= Len(text_lines) /\ NoHours(total_hours)

C23_Step ==
    (ReadsForHours /\ MatchingHoursPatterns # {}) =>
        total_hours' =
            Some(ToFloat(SubSeq(Strip(text_lines[idx]),
                                HoursSearch(LineRead, Min(MatchingHoursPatterns))[1],
                                HoursSearch(LineRead, Min(MatchingHoursPatterns))[2])))

SeparateLines == {<<"Total: 7.5 hours", "03/06/2025">>, <<"03/06/2025", "Total: 7.5 hours">>}

C23_Example ==
    (pc = "timed" /\ text_lines \in SeparateLines) =>
        /\ date = Some("03/06/2025")
        /\ total_hours = Some([whole |-> 7, frac |-> "5"])

\* C23: on each line the hours patterns are tried in the order 'total: N
\* hours', 'hours: N', 'total: N', bare 'N hours', and the first pattern in
\* that order that matches supplies the value, even when a later pattern
\* would match earlier in the line; "Total: 7.5 hours" and "03/06/2025" on
\* separate lines, in either order, give ("03/06/2025", 7.5).
C23_PatternOrderDecides == []C23_Example /\ [][C23_Step]_vars

\* "2 hours, total: 7.5" was read: the bare 'N hours' pattern matches at the
\* start of the line, 'total: N' behind it, and 'total: N' gave the value
C23_Witness ==
    /\ pc = "time" /\ idx = 2
    /\ text_lines[1] = "2 hours, total: 7.5"
    /\ HoursMatchStart(Lower(text_lines[1]), 4) < HoursMatchStart(Lower(text_lines[1]), 3)
    /\ HoursMatchStart(Lower(text_lines[1]), 3) > 0
    /\ total_hours = Some([whole |-> 7, frac |-> "5"])

(***************************************************************************)
(* Further properties of the business card scanner (SpecCard)              *)
(***************************************************************************)
\* the non-empty lines of the card, stripped
NonEmptyLines(text) == SelectSeq([n \in 1..Len(SplitOn(text, "\n")) |-> Strip(SplitOn(text, "\n")[n])],
                                 LAMBDA line : line # "")

\* a line that looks like a name: no email, no digit, at most 30 characters,
\* not all upper case, no business or title keyword, at least 2 words, every
\* word capitalized
NameLike(line) ==
    /\ EmailSearch(line) = None
    /\ \A i \in 1..Len(line) : ~IsDigit(Ch(line, i))
    /\ Len(line) <= 30
    /\ ~IsUpperString(line)
    /\ \A keyword \in {"inc", "llc", "corp", "company", "hospital", "medical", "health", "center",
                        "clinic", "manager", "director", "coordinator"} :
           ~Contains(Lower(line), keyword)
    /\ Len(SplitWS(line)) >= 2
    /\ \A n \in 1..Len(SplitWS(line)) : IsUpper(Ch(SplitWS(line)[n], 1))

\* the lines strategy 1 accepts: among the first 3 non-empty lines
NameLines(text) == {n \in 1..Len(NonEmptyLines(text)) : n <= 3 /\ NameLike(NonEmptyLines(text)[n])}

\* a word strategy 2 collects: capitalized, alphabetic, more than one letter,
\* not in the stoplist
NameWord(word) ==
    /\ IsUpper(Ch(word, 1))
    /\ Len(word) > 1
    /\ \A i \in 1..Len(word) : IsAlpha(Ch(word, i))
    /\ Lower(word) \notin {"inc", "llc", "corp", "company", "hospital", "medical", "health",
                           "center", "clinic", "the", "and", "of", "for"}

NameWords(text) == SelectSeq(SplitWS(text), NameWord)

Blank(value) == IF value = None THEN TRUE ELSE Val(value) = ""

\* the call of validate_contact: the caller's dictionary keeps every field
\* it had, phone and website being what the caller put there
C25_Step ==
    (pc = "parsed" /\ pc' = "validated") =>
        /\ \A field \in DOMAIN contact \ {"phone", "website"} : contact'[field] = contact[field]
        /\ contact'.phone \in Phones /\ contact'.website \in Websites

C25_Returned ==
    pc = "validated" =>
        /\ \A field \in {"title", "phone", "website", "address"} :
               IF Blank(contact[field]) THEN validated[field] = None
               ELSE validated[field] = contact[field]
        /\ ~Blank(contact.email) => validated.email = Some(Strip(Lower(Val(contact.email))))
        /\ validate_contact(validated) = validated

FirstBucket(street_name) ==
    MinOr({n \in 1..Len(street_buckets) :
               \E word \in street_buckets[n][1] : Contains(Lower(street_name), word)}, 0)

\* the name of the street-keyword inference for a street name
NameOfStreet(street_name) ==
    IF FirstBucket(street_name) = 0 THEN street_name \o " Healthcare Facility"
    ELSE street_name \o " " \o street_buckets[FirstBucket(street_name)][2]

\* the tiers of get_best_business_name in their order
C26_Tiers ==
    IF Usable(resolve_args.business_name) THEN resolved = Strip(Val(resolve_args.business_name))
    ELSE IF ~Missing(name_from_address(resolve_args.address))
    THEN resolved = Val(name_from_address(resolve_args.address))
    ELSE IF ~Missing(name_from_notes(resolve_args.notes))
    THEN resolved = Val(name_from_notes(resolve_args.notes))
    ELSE (~Missing(resolve_args.address) /\ StreetSearch(Val(resolve_args.address)) # None)
             => resolved = NameOfStreet(Val(StreetSearch(Val(resolve_args.address))))

\* C26 as claimed: get_best_business_name returns the trimmed existing name
\* whenever it is non-blank and not "Unknown Facility"; otherwise the name
\* from the address, else from the notes, else from the street keywords, the
\* first matching bucket in table order deciding the suffix; the result is
\* never empty, and with the result as existing name the function returns
\* the same name again.
C26_ResolvedNameIsStable ==
    pc = "best" =>
        /\ C26_Tiers
        /\ resolved # ""
        /\ get_best_business_name(Some(resolved), resolve_args.address, resolve_args.notes)
               = resolved

(***************************************************************************)
(* Further properties of the page scan (SpecScan): the lines of a stop     *)
(***************************************************************************)
\* the addresses that stand on the lines of the stop of line k: behind the
\* number on its stop-number line, or on a line before the next one
OwnAddresses(k) ==
    ({extract_address(Strip(SubSeq(Strip(text_lines[k]), StopMatchEnd(Strip(text_lines[k])) + 1,
                                   Len(Strip(text_lines[k])))))}
        \cup {extract_address(Strip(text_lines[j])) : j \in (k + 1)..(NextStopLine(k) - 1)})
    \ {None}

\* C27 as claimed: the address of a stop is extracted from a line that
\* belongs to the stop, its own stop-number line or a line after it and
\* before the next stop-number line of the page, never from the line of the
\* following stop.
C27_AddressFromOwnLines ==
    (pc \in {"scan", "scanned"} /\ ActiveStopLine > 0 /\ ~NoAddress(Scan))
        => current_address \in OwnAddresses(ActiveStopLine)

\* a line that begins with a house number: the address found on it starts
\* with the digits the line starts with
HouseNumberLine(line) ==
    /\ StopMatchEnd(line) > 0
    /\ extract_address(line) # None
    /\ MatchAt(line, 1, Val(extract_address(line)))

\* C28 as claimed: a new stop starts only at a stop header line; a line of
\* the active stop that begins with a house number, such as "123 Main St",
\* does not finalize the active stop and opens no stop numbered by the house
\* number, so the notes behind it stay with the active stop.
C28_Step ==
    (/\ pc = "scan" /\ idx <= Len(text_lines)
     /\ current_stop # None
     /\ HouseNumberLine(Strip(text_lines[idx])))
        => /\ current_stop' = current_stop
           /\ page_visits' = page_visits

C28_HouseNumberStartsNoStop == [][C28_Step]_vars

\* the loop reads the line from which the address of the active stop was
\* extracted
ReadsAddressLine ==
    /\ pc = "scan" /\ idx <= Len(text_lines)
    /\ ActiveStopLine > 0
    /\ idx = AddressLineOf(ActiveStopLine)

\* C29 as claimed: the line from which the address of a stop was extracted
\* is consumed as the address and is not appended to the notes of the stop,
\* whether the address was found on the stop-number line, by the look-ahead
\* over 2 lines, or on a later line.
C29_Step == ReadsAddressLine => current_notes' = current_notes

C29_AddressLineIsNoNote == [][C29_Step]_vars

(***************************************************************************)
(* upload_file (src/app.py:303-390)                                        *)
(*                                                                         *)
(* An uploaded file is its name, what pdfplumber makes of its bytes (a     *)
(* document), and what PIL and tesseract make of them (an image).  An      *)
(* outcome is a returned JSONResponse or a raised exception; an            *)
(* HTTPException is an Exception, so "except Exception" catches it.        *)
(***************************************************************************)
\* parse_pdf(pdf_content) (src/parser.py:87-95)
parse_pdf(doc) ==
    IF detect_pdf_type(doc) = "time_tracking" THEN parse_time_tracking_pdf(doc)
    ELSE parse_myway_route_pdf(doc)

\* scan_image(image_content) (src/business_card_scanner.py:19-109): the image
\* cannot be opened, or the OCR raises, or the text is parsed
scan_image(image) ==
    IF ~image.opens
    THEN [success |-> FALSE, error |-> "Failed to process image: cannot identify image file",
          contact |-> None]
    ELSE IF image.text = None
    THEN [success |-> FALSE, error |-> "Failed to process image: tesseract failed",
          contact |-> None]
    ELSE [success |-> TRUE, contact |-> parse_contact_info(Val(image.text)),
          raw_text |-> Val(image.text)]

HTTPException(status_code, detail) ==
    [raised |-> TRUE, http |-> TRUE, status_code |-> status_code, detail |-> detail]

\* an exception that is no HTTPException
OtherException(text) == [raised |-> TRUE, http |-> FALSE, detail |-> text]

JSONResponse(body) == [raised |-> FALSE, status_code |-> 200, body |-> body]

\* str(e): an HTTPException prints as "<status_code>: <detail>"
StrOf(e) ==
    IF ~e.http THEN e.detail
    ELSE (IF e.status_code = 400 THEN "400" ELSE "500") \o ": " \o e.detail

allowed_extensions == <<"pdf", "jpg", "jpeg", "png", "heic", "heif">>

\* file.filename.lower().split('.')[-1] if '.' in file.filename else ''
ExtensionOf(filename) ==
    IF Contains(filename, ".")
    THEN SplitOn(Lower(filename), ".")[Len(SplitOn(Lower(filename), "."))]
    ELSE ""

\* the PDF branch, result being the answer of parse_pdf
PdfOutcome(filename, parsed) ==
    IF ~parsed.success THEN HTTPException(400, parsed.error)
    ELSE IF parsed.type = "time_tracking"
    THEN JSONResponse([success |-> TRUE, filename |-> filename, type |-> "time_tracking",
                       date |-> parsed.date, total_hours |-> parsed.total_hours])
    ELSE IF parsed.visits = <<>> THEN HTTPException(400, "No visits found in PDF")
    ELSE JSONResponse([success |-> TRUE, filename |-> filename, type |-> "myway_route",
                       visits |-> parsed.visits, count |-> Len(parsed.visits)])

\* "if mailchimp_service.enabled and contact.get('email')"
MailchimpResult(enabled, validated_contact) ==
    IF enabled /\ validated_contact.email # None /\ validated_contact.email # Some("")
    THEN Some("added") ELSE None

\* the image branch behind a successful scan
CardOutcome(up, scanned, validated_contact) ==
    JSONResponse([success |-> TRUE, filename |-> Val(up.filename), type |-> "business_card",
                  contact |-> validated_contact, extracted_text |-> scanned.raw_text,
                  mailchimp_export |-> MailchimpResult(up.mailchimp_enabled, validated_contact)])

\* the image branch: its "except HTTPException: raise" hands the exception on
ImageOutcome(up, scanned) ==
    IF ~scanned.success THEN HTTPException(400, scanned.error)
    ELSE CardOutcome(up, scanned, validate_contact(scanned.contact))

\* the body of the outer try for a file with extension file_extension
TryOutcome(up, file_extension) ==
    IF \A n \in 1..Len(allowed_extensions) : allowed_extensions[n] # file_extension
    THEN HTTPException(400, "Only " \o Join(allowed_extensions, ", ") \o " files are allowed")
    ELSE IF file_extension = "pdf" THEN PdfOutcome(Val(up.filename), parse_pdf(up.document))
    ELSE ImageOutcome(up, scan_image(up.image))

\* the outer "except Exception as e: raise HTTPException(status_code=500, ...)"
OuterExcept(outcome) ==
    IF outcome.raised THEN HTTPException(500, "Error processing file: " \o StrOf(outcome))
    ELSE outcome

\* upload_file(file); a file without name makes "'.' in file.filename" raise
upload_file(up) ==
    IF up.filename = None
    THEN OuterExcept(OtherException("argument of type 'NoneType' is not iterable"))
    ELSE OuterExcept(TryOutcome(up, ExtensionOf(Val(up.filename))))

\* what the client gets: the status and the detail of the exception, or the body
ResponseOf(outcome) ==
    IF outcome.raised THEN [status_code |-> outcome.status_code, detail |-> outcome.detail]
    ELSE [status_code |-> outcome.status_code, body |-> outcome.body]

(***************************************************************************)
(* Specification SpecUpload: one call of upload_file                       *)
(***************************************************************************)
MaxUploadPages == 2

Filenames == {None, Some("route.pdf"), Some("SHEET.PDF"), Some("card.jpg"), Some("card.v2.heic"),
              Some("notes.txt"), Some("README"), Some("pdf")}

UploadDocuments ==
    {[opens |-> FALSE, pages |-> <<>>]}
        \cup {[opens |-> TRUE, pages |-> ps] :
                 ps \in SeqsUpTo({TimePage, RoutePage, OpenStopPage, BrokenPage}, MaxUploadPages)}

Images == {[opens |-> FALSE, text |-> None], [opens |-> TRUE, text |-> None],
           [opens |-> TRUE, text |-> Some("John Smith\njohn.smith@acmehealth.com")],
           [opens |-> TRUE, text |-> Some("")]}

UploadInit ==
    /\ pc = "upload"
    /\ upload \in [filename : Filenames, document : UploadDocuments, image : Images,
                   mailchimp_enabled : BOOLEAN]
    /\ response = <<>>
    /\ pdf_content = <<>> /\ pdf_type = "" /\ result = <<>> /\ page_no = 0
    /\ CleanIdle /\ LinesIdle /\ StopIdle /\ NameIdle /\ TimeIdle /\ SharedIdle /\ CardIdle
    /\ ResolveIdle

UploadFile ==
    /\ pc = "upload"
    /\ response' = ResponseOf(upload_file(upload))
    /\ pc' = "responded"
    /\ UNCHANGED <<upload, pdf_content, pdf_type, result, page_no, cleanVars, scanVars, nameVars,
                   timeVars, sharedVars, cardVars, resolveVars>>

UploadNext == UploadFile

SpecUpload == UploadInit /\ [][UploadNext]_vars

\* the cases of a client error
BadExtension ==
    upload.filename # None /\
    ExtensionOf(Val(upload.filename)) \notin {"pdf", "jpg", "jpeg", "png", "heic", "heif"}
IsPdf == upload.filename # None /\ ExtensionOf(Val(upload.filename)) = "pdf"
IsImage == upload.filename # None /\ ~BadExtension /\ ~IsPdf
PdfFails == IsPdf /\ ~parse_pdf(upload.document).success
RouteWithoutVisits ==
    /\ IsPdf /\ parse_pdf(upload.document).success
    /\ parse_pdf(upload.document).type = "myway_route"
    /\ parse_pdf(upload.document).visits = <<>>
ScanFails == IsImage /\ ~scan_image(upload.image).success

\* C30 as claimed: upload_file answers client errors with status 400: a file
\* whose extension is not one of pdf, jpg, jpeg, png, heic, heif, a PDF whose
\* parse result has success false, a route PDF without visits and an image
\* whose scan fails; status 500 is used only for unexpected exceptions.
C30_ClientErrorsAre400 ==
    pc = "responded" =>
        IF BadExtension \/ PdfFails \/ RouteWithoutVisits \/ ScanFails
        THEN response.status_code = 400
        ELSE response.status_code = 500 => upload.filename = None

=============================================================================
